---- MODULE Spec2Model ----
(***************************************************************************)
(* Model of the vehicle dashboard's navigation subsystem (GPSNavigator)    *)
(* and of the NotificationManager it reports to.                           *)
(*                                                                         *)
(* Representation of the C++ values:                                       *)
(*   - a latitude or longitude (double, degrees) is an integer number of   *)
(*     1/UnitsPerDegree degrees, so 37.7749 is 377749;                     *)
(*   - an angle in radians is an integer number of half units (one half    *)
(*     unit is pi / (180 * 2 * UnitsPerDegree) rad), so that the halving   *)
(*     of the haversine formula is exact;                                  *)
(*   - every other double that is computed (sines, the haversine term,     *)
(*     distances, times) is a binary floating point number <<m, e>> of     *)
(*     value m * 2^e with a 15 bit mantissa, NaN included; speed, heading  *)
(*     and accuracy are stored as integers (km/h, degrees, metres).        *)
(***************************************************************************)
EXTENDS Integers, Sequences, FiniteSets, TLC

(***************************************************************************)
(* double arithmetic.  The operations are functions, so that an operand is *)
(* evaluated once, as a C++ argument is.                                   *)
(***************************************************************************)
MantissaTop == 32768
MantissaLow == 16384
IsqrtMax == 46340

Double == Int \X Int
NaN == <<0, 1>>
FZero == <<0, 0>>

RECURSIVE Pow2(_)
Pow2(k) == IF k <= 0 THEN 1 ELSE 2 * Pow2(k - 1)

\* the number of low bits that m >= 0 has beyond the mantissa
RECURSIVE Excess(_)
Excess(m) == IF m < MantissaTop THEN 0 ELSE 1 + Excess(m \div 2)

\* m / p for a power of two p >= 2, rounded to nearest, ties to even, as the
\* default rounding of a double does
RoundHalfEven(m, p) == (m + (p \div 2) - 1 + ((m \div p) % 2)) \div p

\* a rounded mantissa that reached the next power of two
Carry(q, e) == IF q = MantissaTop THEN <<MantissaLow, e + 1>> ELSE <<q, e>>

RoundShift(m, e, k) == Carry(RoundHalfEven(m, Pow2(k)), e + k)

RECURSIVE NormPos(_, _)
NormPos(m, e) ==
    IF m = 0 THEN FZero
    ELSE IF m >= MantissaTop THEN RoundShift(m, e, Excess(m))
    ELSE IF m < MantissaLow THEN NormPos(2 * m, e - 1)
    ELSE <<m, e>>

Norm[m \in Int, e \in Int] ==
    IF m < 0 THEN LET r == NormPos(-m, e) IN <<-r[1], r[2]>>
    ELSE NormPos(m, e)

FromInt[n \in Int] == Norm[n, 0]

IsNaN[x \in Double] == x = NaN

FNeg[x \in Double] == IF IsNaN[x] THEN NaN ELSE <<-x[1], x[2]>>

FAdd[x \in Double, y \in Double] ==
    IF IsNaN[x] \/ IsNaN[y] THEN NaN
    ELSE IF x[1] = 0 THEN y
    ELSE IF y[1] = 0 THEN x
    ELSE LET hi == IF x[2] >= y[2] THEN x ELSE y
             lo == IF x[2] >= y[2] THEN y ELSE x
             d  == hi[2] - lo[2]
         IN  IF d > 15 THEN hi ELSE Norm[hi[1] * Pow2(d) + lo[1], lo[2]]

FSub[x \in Double, y \in Double] == FAdd[x, FNeg[y]]

FMul[x \in Double, y \in Double] ==
    IF IsNaN[x] \/ IsNaN[y] THEN NaN
    ELSE Norm[x[1] * y[1], x[2] + y[2]]

\* x / y for y # 0 (the code divides only by non-zero values)
FDiv[x \in Double, y \in Double] ==
    IF IsNaN[x] \/ IsNaN[y] THEN NaN
    ELSE LET ax == IF x[1] < 0 THEN -x[1] ELSE x[1]
             ay == IF y[1] < 0 THEN -y[1] ELSE y[1]
             q  == (ax * MantissaTop) \div ay
             s  == IF (x[1] < 0) = (y[1] < 0) THEN 1 ELSE -1
         IN  Norm[s * q, x[2] - 15 - y[2]]

\* x < y and x <= y on doubles: false when either side is NaN
FLt[x \in Double, y \in Double] == ~IsNaN[x] /\ ~IsNaN[y] /\ FSub[x, y][1] < 0
FLe[x \in Double, y \in Double] == ~IsNaN[x] /\ ~IsNaN[y] /\ FSub[x, y][1] <= 0

\* x == y on doubles: false when either side is NaN
FEq[x \in Double, y \in Double] == ~IsNaN[x] /\ ~IsNaN[y] /\ x = y

RECURSIVE IsqrtBetween(_, _, _)
IsqrtBetween(lo, hi, n) ==
    IF lo >= hi THEN lo
    ELSE LET mid == (lo + hi + 1) \div 2
         IN  IF mid * mid <= n THEN IsqrtBetween(mid, hi, n)
             ELSE IsqrtBetween(lo, mid - 1, n)

\* sqrt: NaN for a negative argument
FSqrt[x \in Double] ==
    IF IsNaN[x] \/ x[1] < 0 THEN NaN
    ELSE IF x[1] = 0 THEN FZero
    ELSE IF (x[2] - 15) % 2 = 0
         THEN Norm[IsqrtBetween(0, IsqrtMax, x[1] * MantissaTop), (x[2] - 15) \div 2]
         ELSE Norm[IsqrtBetween(0, IsqrtMax, x[1] * 2 * MantissaTop), (x[2] - 16) \div 2]

\* M_PI, rounded to the mantissa
M_PI == <<25736, -13>>

(***************************************************************************)
(* Angles.  sin and cos take an angle in half units and reduce it exactly  *)
(* to the first octant before the series is summed, as libm does to the    *)
(* precision of a double.                                                  *)
(***************************************************************************)
UnitsPerDegree == 10000
HalfTurn == 180 * 2 * UnitsPerDegree
QuarterTurn == 90 * 2 * UnitsPerDegree
EighthTurn == 45 * 2 * UnitsPerDegree
FullTurn == 360 * 2 * UnitsPerDegree

FOne == FromInt[1]

\* h half units (0 <= h <= EighthTurn) in radians
ToRadians[h \in Int] == FDiv[FMul[FromInt[h], M_PI], FromInt[HalfTurn]]

SinSeries[x \in Double] ==
    LET x2 == FMul[x, x]
        t3 == FSub[FOne, FDiv[x2, FromInt[42]]]
        t2 == FSub[FOne, FMul[FDiv[x2, FromInt[20]], t3]]
        t1 == FSub[FOne, FMul[FDiv[x2, FromInt[6]], t2]]
    IN  FMul[x, t1]

CosSeries[x \in Double] ==
    LET x2 == FMul[x, x]
        t4 == FSub[FOne, FDiv[x2, FromInt[56]]]
        t3 == FSub[FOne, FMul[FDiv[x2, FromInt[30]], t4]]
        t2 == FSub[FOne, FMul[FDiv[x2, FromInt[12]], t3]]
    IN  FSub[FOne, FMul[FDiv[x2, FromInt[2]], t2]]

\* sin of q half units, 0 <= q <= QuarterTurn
SinFirstQuarter[q \in Int] ==
    IF q > EighthTurn THEN CosSeries[ToRadians[QuarterTurn - q]]
    ELSE SinSeries[ToRadians[q]]

\* sin of r half units, 0 <= r <= HalfTurn: sin(pi - x) = sin(x)
SinFirstHalf[r \in Int] ==
    SinFirstQuarter[IF r > QuarterTurn THEN HalfTurn - r ELSE r]

\* sin(pi + x) = -sin(x)
Sin[a \in Int] ==
    FMul[FromInt[IF a % FullTurn >= HalfTurn THEN -1 ELSE 1],
         SinFirstHalf[a % HalfTurn]]

Cos[a \in Int] == Sin[a + QuarterTurn]

\* atan(t) for 0 <= t <= 1: two halvings of the angle, then the series
AtanSeries[t \in Double] ==
    LET t2 == FMul[t, t]
        s4 == FSub[FDiv[FOne, FromInt[7]], FDiv[t2, FromInt[9]]]
        s3 == FSub[FDiv[FOne, FromInt[5]], FMul[t2, s4]]
        s2 == FSub[FDiv[FOne, FromInt[3]], FMul[t2, s3]]
        s1 == FSub[FOne, FMul[t2, s2]]
    IN  FMul[t, s1]

AtanHalve[t \in Double] == FDiv[t, FAdd[FOne, FSqrt[FAdd[FOne, FMul[t, t]]]]]

Atan[t \in Double] == FMul[FromInt[4], AtanSeries[AtanHalve[AtanHalve[t]]]]

\* atan2(y, x) for y >= 0 and x >= 0, the only arguments calculateDistance passes
Atan2[y \in Double, x \in Double] ==
    IF IsNaN[y] \/ IsNaN[x] THEN NaN
    ELSE IF y[1] = 0 THEN FZero
    ELSE IF x[1] = 0 THEN FDiv[M_PI, FromInt[2]]
    ELSE IF FLe[y, x] THEN Atan[FDiv[y, x]]
    ELSE FSub[FDiv[M_PI, FromInt[2]], Atan[FDiv[x, y]]]

(***************************************************************************)
(* GPSCoordinate                                                           *)
(***************************************************************************)
GPSCoordinate(lat, lon, alt) == [latitude |-> lat, longitude |-> lon, altitude |-> alt]

\* isValid with the longitude test left out
isValid_LatitudeOnly(c) ==
    (c.latitude >= -90 * UnitsPerDegree /\ c.latitude <= 90 * UnitsPerDegree)

\* isValid with the upper bounds left out
isValid_NoUpperBound(c) ==
    c.latitude >= -90 * UnitsPerDegree /\ c.longitude >= -180 * UnitsPerDegree

\* isValid with the bounds themselves excluded
isValid_ExclusiveBounds(c) ==
    (c.latitude > -90 * UnitsPerDegree /\ c.latitude < 90 * UnitsPerDegree) /\
    (c.longitude > -180 * UnitsPerDegree /\ c.longitude < 180 * UnitsPerDegree)

isValid(c) ==
    (c.latitude >= -90 * UnitsPerDegree /\ c.latitude <= 90 * UnitsPerDegree) /\
    (c.longitude >= -180 * UnitsPerDegree /\ c.longitude <= 180 * UnitsPerDegree)

(***************************************************************************)
(* Geodesy: the haversine distance in km, -1.0 for an invalid coordinate   *)
(***************************************************************************)
EARTH_RADIUS_KM == 6371

\* the haversine term a of two valid coordinates
HaversineA(coord1, coord2) ==
    LET lat1Rad == 2 * coord1.latitude
        lat2Rad == 2 * coord2.latitude
        deltaLatRad == 2 * (coord2.latitude - coord1.latitude)
        deltaLonRad == 2 * (coord2.longitude - coord1.longitude)
    IN  FAdd[FMul[Sin[deltaLatRad \div 2], Sin[deltaLatRad \div 2]],
             FMul[FMul[FMul[Cos[lat1Rad], Cos[lat2Rad]],
                       Sin[deltaLonRad \div 2]], Sin[deltaLonRad \div 2]]]

\* the central angle c = 2 * atan2(sqrt(a), sqrt(1 - a))
HaversineC[a \in Double] == FMul[FromInt[2], Atan2[FSqrt[a], FSqrt[FSub[FOne, a]]]]

calculateDistance(coord1, coord2) ==
    IF ~isValid(coord1) \/ ~isValid(coord2) THEN FromInt[-1]
    ELSE FMul[FromInt[EARTH_RADIUS_KM], HaversineC[HaversineA(coord1, coord2)]]

(***************************************************************************)
(* State: the fields of one GPSNavigator and of the NotificationManager it *)
(* shares.                                                                 *)
(* `called' is a history variable: the operations, among setDestination    *)
(* (with a valid destination) and updateGPSSignal, that have been called   *)
(* since construction.  No operation reads it.                             *)
(***************************************************************************)
VARIABLES currentLocation, destination, status, currentSpeed, currentHeading,
          gpsSignalAvailable, satelliteCount, accuracy, route, notifications,
          called, vehicleMonitor, mediaPlayer, systemSettings, soundEnabled

vars == <<currentLocation, destination, status, currentSpeed, currentHeading,
          gpsSignalAvailable, satelliteCount, accuracy, route, notifications,
          called, vehicleMonitor, mediaPlayer, systemSettings, soundEnabled>>

\* the fields of the GPSNavigator, and the operations called on it
navigator == <<currentLocation, destination, status, currentSpeed, currentHeading,
               gpsSignalAvailable, satelliteCount, accuracy, route, called>>

\* the MediaPlayer, the SystemSettings and the sound flag of the NotificationManager
infotainment == <<mediaPlayer, systemSettings, soundEnabled>>

NavigationStatus == {"IDLE", "NAVIGATING", "ARRIVED", "OFF_ROUTE", "GPS_LOST"}
AlertLevel == {"INFO", "WARNING", "CRITICAL"}

MIN_GPS_ACCURACY == 10
MIN_SATELLITES == 4

\* an arrival radius of 0.01 km
ArrivalRadiusKm_Hundredth == FDiv[FOne, FromInt[100]]

\* the arrival radius of updateLocation, 0.1 km
ArrivalRadiusKm == FDiv[FOne, FromInt[10]]

Max(a, b) == IF a >= b THEN a ELSE b

(***************************************************************************)
(* Bounds and inputs of the model                                          *)
(***************************************************************************)
MaxLog == 1
MaxRoute == 2

Origin == GPSCoordinate(0, 0, 0)
North55m == GPSCoordinate(5, 0, 0)
North111m == GPSCoordinate(10, 0, 50)
InvalidLat == GPSCoordinate(91 * UnitsPerDegree, 0, 0)
InvalidLon == GPSCoordinate(0, 181 * UnitsPerDegree, 0)

CoordinateInputs == {Origin, North55m, North111m, InvalidLat, InvalidLon}

\* the arguments of updateLocation and of setDestination
LocationInputs == CoordinateInputs
DestinationInputs == {North111m, InvalidLat, InvalidLon}

Waypoint(coord, n, addr) == [coordinate |-> coord, name |-> n, address |-> addr]

WaypointInputs == {Waypoint(North55m, "Waypoint 1", "Address 1"),
                   Waypoint(InvalidLat, "Waypoint 2", "")}

DestinationNames == {"Destination"}

SpeedInputs == {-2, 0, 60}
HeadingInputs == {-90, 360}
SignalInputs == {<<8, 3>>, <<2, 15>>, <<4, 10>>, <<3, 10>>, <<4, 11>>, <<-1, -1>>}

(***************************************************************************)
(* NotificationManager                                                     *)
(***************************************************************************)
Notification(msg, lvl) == [message |-> msg, level |-> lvl]

\* the log after addNotification(message, level)
addNotification(log, message, level) == Append(log, Notification(message, level))

\* the value of a char that holds the byte: on a build where char is signed the
\* bytes 128 .. 255 are the values -128 .. -1
charValue(byte, charIsSigned) == IF charIsSigned /\ byte >= 128 THEN byte - 256 ELSE byte

\* the test of the sanitization: c < 32 && c != '\t' && c != '\n'
isControl(byte, charIsSigned) ==
    LET c == charValue(byte, charIsSigned)
    IN  c < 32 /\ c # 9 /\ c # 10

\* the message, a sequence of bytes, after std::remove_if with the test and erase
RECURSIVE sanitizedMessage(_, _)
sanitizedMessage(message, charIsSigned) ==
    IF message = <<>> THEN <<>>
    ELSE IF isControl(Head(message), charIsSigned)
         THEN sanitizedMessage(Tail(message), charIsSigned)
         ELSE <<Head(message)>> \o sanitizedMessage(Tail(message), charIsSigned)

\* the messages of at most MaxMessage bytes out of a bell, a tab, DEL and the
\* second byte of the degree sign in UTF-8
MaxMessage == 3
MessageInputs == UNION {[1..n -> {7, 9, 127, 176}] : n \in 0..MaxMessage}

\* addNotification(message, level) with the message given as its bytes; whether char
\* is signed is a property of the build
addNotificationOfBytes(message, level, charIsSigned) ==
    /\ notifications' = Append(notifications,
                               Notification(sanitizedMessage(message, charIsSigned), level))
    /\ Len(notifications') <= MaxLog
    /\ UNCHANGED <<navigator, vehicleMonitor, infotainment>>

clearNotifications ==
    /\ notifications' = <<>>
    /\ UNCHANGED <<currentLocation, destination, status, currentSpeed, currentHeading,
                   gpsSignalAvailable, satelliteCount, accuracy, route, called,
                   vehicleMonitor, infotainment>>

\* getNotificationCount()
getNotificationCount(log) == Len(log)

\* hasCriticalAlerts that looks at the newest notification only
hasCriticalAlerts_LastOnly(log) ==
    log # <<>> /\ log[Len(log)].level = "CRITICAL"

hasCriticalAlerts(log) == \E i \in DOMAIN log : log[i].level = "CRITICAL"

(***************************************************************************)
(* VehicleMonitor.  Temperatures, percentages, speeds and rates are whole  *)
(* tenths (850 is 85.0).  The number that the code formats into a message  *)
(* is left out of the message.                                             *)
(***************************************************************************)
MAX_ENGINE_TEMP == 1050
LOW_FUEL_THRESHOLD == 150
CRITICAL_FUEL_THRESHOLD == 50
MAX_SPEED_LIMIT == 1200
MIN_BRAKE_THRESHOLD == 200

\* the state after the constructor
VehicleMonitor ==
    [engineTemperature |-> 850, fuelLevel |-> 750, fuelConsumptionRate |-> 85,
     currentSpeed |-> 0, brakeWearLevel |-> 850]

\* the bound on the log in the operations of the VehicleMonitor
MaxAlerts == 2

checkEngineTemperature(m, log) ==
    IF m.engineTemperature > MAX_ENGINE_TEMP
    THEN addNotification(log, "Engine overheating! Temperature: ", "CRITICAL")
    ELSE IF m.engineTemperature > MAX_ENGINE_TEMP - 100
    THEN addNotification(log, "Engine temperature elevated: ", "WARNING")
    ELSE log

checkFuelLevel(m, log) ==
    IF m.fuelLevel <= CRITICAL_FUEL_THRESHOLD
    THEN addNotification(log, "CRITICAL: Fuel level extremely low! ", "CRITICAL")
    ELSE IF m.fuelLevel <= LOW_FUEL_THRESHOLD
    THEN addNotification(log, "Low fuel warning: ", "WARNING")
    ELSE log

checkSpeed(m, log) ==
    IF m.currentSpeed > MAX_SPEED_LIMIT
    THEN addNotification(log, "Speed limit exceeded! Current: ", "WARNING")
    ELSE log

checkBrakeSystem(m, log) ==
    IF m.brakeWearLevel <= MIN_BRAKE_THRESHOLD
    THEN IF m.brakeWearLevel <= 100
         THEN addNotification(log, "Brake system requires attention! Wear level: ",
                              "CRITICAL")
         ELSE addNotification(log, "Brake system requires attention! Wear level: ",
                              "WARNING")
    ELSE log

setEngineTemperature(temperature) ==
    LET low == IF temperature < -500 THEN -500 ELSE temperature
        m == [vehicleMonitor EXCEPT
                  !.engineTemperature = IF low > 2000 THEN 2000 ELSE low]
    IN  /\ vehicleMonitor' = m
        /\ notifications' = checkEngineTemperature(m, notifications)
        /\ Len(notifications') <= MaxAlerts
        /\ UNCHANGED <<navigator, infotainment>>

\* setFuelLevel without the clamp at 100
setFuelLevel_NoUpperClamp(level) ==
    LET m == [vehicleMonitor EXCEPT !.fuelLevel = IF level < 0 THEN 0 ELSE level]
    IN  /\ vehicleMonitor' = m
        /\ notifications' = checkFuelLevel(m, notifications)
        /\ Len(notifications') <= MaxAlerts
        /\ UNCHANGED <<navigator, infotainment>>

setFuelLevel(level) ==
    LET low == IF level < 0 THEN 0 ELSE level
        m == [vehicleMonitor EXCEPT !.fuelLevel = IF low > 1000 THEN 1000 ELSE low]
    IN  /\ vehicleMonitor' = m
        /\ notifications' = checkFuelLevel(m, notifications)
        /\ Len(notifications') <= MaxAlerts
        /\ UNCHANGED <<navigator, infotainment>>

setFuelConsumptionRate(rate) ==
    /\ vehicleMonitor' = [vehicleMonitor EXCEPT
                              !.fuelConsumptionRate = IF rate < 0 THEN 0 ELSE rate]
    /\ UNCHANGED <<navigator, notifications, infotainment>>

setCurrentSpeed(speed) ==
    LET m == [vehicleMonitor EXCEPT !.currentSpeed = IF speed < 0 THEN 0 ELSE speed]
    IN  /\ vehicleMonitor' = m
        /\ notifications' = checkSpeed(m, notifications)
        /\ Len(notifications') <= MaxAlerts
        /\ UNCHANGED <<navigator, infotainment>>

setBrakeWearLevel(wearLevel) ==
    LET low == IF wearLevel < 0 THEN 0 ELSE wearLevel
        m == [vehicleMonitor EXCEPT !.brakeWearLevel = IF low > 1000 THEN 1000 ELSE low]
    IN  /\ vehicleMonitor' = m
        /\ notifications' = checkBrakeSystem(m, notifications)
        /\ Len(notifications') <= MaxAlerts
        /\ UNCHANGED <<navigator, infotainment>>

\* the log after performSystemCheck()
systemCheck(m, log) ==
    LET checked == checkBrakeSystem(m,
                       checkSpeed(m, checkFuelLevel(m, checkEngineTemperature(m, log))))
    IN  IF ~hasCriticalAlerts(checked)
        THEN addNotification(checked,
                 "System check completed - All systems normal", "INFO")
        ELSE checked

performSystemCheck ==
    /\ notifications' = systemCheck(vehicleMonitor, notifications)
    /\ Len(notifications') <= MaxAlerts
    /\ UNCHANGED <<navigator, vehicleMonitor, infotainment>>

(***************************************************************************)
(* MediaPlayer                                                             *)
(* The player holds a playlist of tracks, the index of the current track,  *)
(* its playback state, a volume and a position in the track.               *)
(***************************************************************************)
Track(t, ar, al, dur) == [title |-> t, artist |-> ar, album |-> al, duration |-> dur]

\* the player after construction
MediaPlayer ==
    [playlist |-> <<>>, currentTrackIndex |-> 0, state |-> "STOPPED", volume |-> 50,
     currentPosition |-> 0]

\* the longest playlist addTrack builds in the model
MaxPlaylist == 2

VolumeInputs == {-10, 150}

\* the tracks loadDemoPlaylist adds, in order
DemoPlaylist ==
    <<Track("Bohemian Rhapsody", "Queen", "A Night at the Opera", 355),
      Track("Hotel California", "Eagles", "Hotel California", 391),
      Track("Stairway to Heaven", "Led Zeppelin", "Led Zeppelin IV", 482),
      Track("Sweet Child O' Mine", "Guns N' Roses", "Appetite for Destruction", 356),
      Track("Imagine", "John Lennon", "Imagine", 183),
      Track("Billie Jean", "Michael Jackson", "Thriller", 294),
      Track("Smells Like Teen Spirit", "Nirvana", "Nevermind", 301),
      Track("Shape of You", "Ed Sheeran", "Divide", 263),
      Track("Rolling in the Deep", "Adele", "21", 228),
      Track("Uptown Funk", "Mark Ronson ft. Bruno Mars", "Uptown Special", 269),
      Track("Despacito", "Luis Fonsi ft. Daddy Yankee", "Vida", 229),
      Track("Thinking Out Loud", "Ed Sheeran", "x (Multiply)", 281),
      Track("Shake It Off", "Taylor Swift", "1989", 219),
      Track("Lose Yourself", "Eminem", "8 Mile", 326)>>

\* the log after one addTrack notification for each track of `tracks', in order
RECURSIVE TracksAdded(_, _)
TracksAdded(log, tracks) ==
    IF tracks = <<>> THEN log
    ELSE TracksAdded(addNotification(log, "Track added: " \o Head(tracks).title, "INFO"),
                     Tail(tracks))

addTrack(track) ==
    /\ mediaPlayer' = [mediaPlayer EXCEPT !.playlist = Append(@, track)]
    /\ Len(mediaPlayer'.playlist) <= MaxPlaylist
    /\ notifications' = TracksAdded(notifications, <<track>>)
    /\ Len(notifications') <= MaxLog
    /\ UNCHANGED <<navigator, vehicleMonitor, systemSettings, soundEnabled>>

\* the playlist is cleared, the demo tracks are added one addTrack at a time, and
\* the index returns to the first track
loadDemoPlaylist ==
    /\ mediaPlayer' = [mediaPlayer EXCEPT !.playlist = DemoPlaylist,
                                          !.currentTrackIndex = 0]
    /\ Len(notifications) <= MaxLog
    /\ notifications' = TracksAdded(notifications, DemoPlaylist)
    /\ UNCHANGED <<navigator, vehicleMonitor, systemSettings, soundEnabled>>

play ==
    IF mediaPlayer.playlist = <<>>
    THEN /\ notifications' = addNotification(notifications, "No tracks in playlist",
                                             "WARNING")
         /\ Len(notifications') <= MaxLog
         /\ UNCHANGED <<navigator, vehicleMonitor, mediaPlayer, systemSettings,
                        soundEnabled>>
    ELSE LET index == IF mediaPlayer.currentTrackIndex >= Len(mediaPlayer.playlist)
                      THEN 0 ELSE mediaPlayer.currentTrackIndex
         IN  /\ mediaPlayer' = [mediaPlayer EXCEPT !.currentTrackIndex = index,
                                                   !.state = "PLAYING"]
             /\ notifications' = addNotification(notifications,
                                     "Now playing: " \o mediaPlayer.playlist[index + 1].title,
                                     "INFO")
             /\ Len(notifications') <= MaxLog
             /\ UNCHANGED <<navigator, vehicleMonitor, systemSettings, soundEnabled>>

\* pause that also starts a stopped player
pause_StartsWhenStopped ==
    /\ mediaPlayer' = [mediaPlayer EXCEPT
                           !.state = IF @ = "PLAYING" THEN "PAUSED" ELSE "PLAYING"]
    /\ UNCHANGED <<navigator, notifications, vehicleMonitor, systemSettings,
                   soundEnabled>>

pause ==
    /\ mediaPlayer' = [mediaPlayer EXCEPT
                           !.state = IF @ = "PLAYING" THEN "PAUSED"
                                     ELSE IF @ = "PAUSED" THEN "PLAYING" ELSE @]
    /\ UNCHANGED <<navigator, notifications, vehicleMonitor, systemSettings,
                   soundEnabled>>

stop ==
    /\ mediaPlayer' = [mediaPlayer EXCEPT !.state = "STOPPED", !.currentPosition = 0]
    /\ UNCHANGED <<navigator, notifications, vehicleMonitor, systemSettings,
                   soundEnabled>>

\* (index + 1) % playlist.size()
nextTrackIndex(index, size) == (index + 1) % size

\* an index that stays on the first track in place of wrapping to the last
previousTrackIndex_NoWrap(index, size) == IF index = 0 THEN 0 ELSE index - 1

\* (index - 1 + playlist.size()) % playlist.size(); the sum is never negative, so
\* the unsigned arithmetic of the code gives the same value
previousTrackIndex(index, size) == (index - 1 + size) % size

nextTrack ==
    IF mediaPlayer.playlist = <<>>
    THEN UNCHANGED vars
    ELSE LET index == nextTrackIndex(mediaPlayer.currentTrackIndex,
                                     Len(mediaPlayer.playlist))
         IN  /\ mediaPlayer' = [mediaPlayer EXCEPT !.currentTrackIndex = index,
                                                   !.currentPosition = 0]
             /\ notifications' =
                    IF mediaPlayer.state = "PLAYING"
                    THEN addNotification(notifications,
                             "Skipped to: " \o mediaPlayer.playlist[index + 1].title, "INFO")
                    ELSE notifications
             /\ Len(notifications') <= Max(MaxLog, Len(notifications))
             /\ UNCHANGED <<navigator, vehicleMonitor, systemSettings, soundEnabled>>

previousTrack ==
    IF mediaPlayer.playlist = <<>>
    THEN UNCHANGED vars
    ELSE LET index == previousTrackIndex(mediaPlayer.currentTrackIndex,
                                         Len(mediaPlayer.playlist))
         IN  /\ mediaPlayer' = [mediaPlayer EXCEPT !.currentTrackIndex = index,
                                                   !.currentPosition = 0]
             /\ notifications' =
                    IF mediaPlayer.state = "PLAYING"
                    THEN addNotification(notifications,
                             "Previous track: " \o mediaPlayer.playlist[index + 1].title,
                             "INFO")
                    ELSE notifications
             /\ Len(notifications') <= Max(MaxLog, Len(notifications))
             /\ UNCHANGED <<navigator, vehicleMonitor, systemSettings, soundEnabled>>

setVolume(vol) ==
    LET low == IF vol < 0 THEN 0 ELSE vol
        v == IF low > 100 THEN 100 ELSE low
    IN  /\ mediaPlayer' = [mediaPlayer EXCEPT !.volume = v]
        /\ notifications' = addNotification(notifications,
                                "Volume set to " \o ToString(v) \o "%", "INFO")
        /\ Len(notifications') <= MaxLog
        /\ UNCHANGED <<navigator, vehicleMonitor, systemSettings, soundEnabled>>

(***************************************************************************)
(* SystemSettings                                                          *)
(* The settings share the NotificationManager; soundEnabled is the sound   *)
(* flag the NotificationManager holds.                                     *)
(***************************************************************************)
\* the settings after construction
SystemSettings ==
    [systemVolume |-> 50, displayBrightness |-> 75, theme |-> "AUTO",
     language |-> "ENGLISH", nightModeEnabled |-> FALSE, voiceGuidanceEnabled |-> TRUE,
     notificationSoundsEnabled |-> TRUE, timeFormat |-> "12h", temperatureUnit |-> "C"]


themeToString(theme) ==
    CASE theme = "LIGHT" -> "Light"
      [] theme = "DARK" -> "Dark"
      [] theme = "AUTO" -> "Auto"
      [] OTHER -> "Unknown"

\* the names are written in ASCII here: the bytes addNotification keeps of
\* "Espanol with a tilde", "Francais with a cedilla" and the Japanese name depend on the build, see
\* sanitizedMessage
languageToString(lang) ==
    CASE lang = "ENGLISH" -> "English"
      [] lang = "SPANISH" -> "Espanol"
      [] lang = "FRENCH" -> "Francais"
      [] lang = "GERMAN" -> "Deutsch"
      [] lang = "JAPANESE" -> "Nihongo"
      [] OTHER -> "Unknown"

\* NotificationManager::setSoundEnabled
setSoundEnabled(enabled) == soundEnabled' = enabled

setSystemVolume(volume) ==
    LET low == IF volume < 0 THEN 0 ELSE volume
        v == IF low > 100 THEN 100 ELSE low
    IN  /\ systemSettings' = [systemSettings EXCEPT !.systemVolume = v]
        /\ notifications' = IF v = 0
                            THEN addNotification(notifications, "System muted", "INFO")
                            ELSE notifications
        /\ Len(notifications') <= MaxLog
        /\ UNCHANGED <<navigator, vehicleMonitor, mediaPlayer, soundEnabled>>

\* the brightness and the log after setDisplayBrightness(brightness)
displayBrightnessSet(brightness, log) ==
    LET low == IF brightness < 0 THEN 0 ELSE brightness
        b == IF low > 100 THEN 100 ELSE low
    IN  [displayBrightness |-> b,
         notifications |-> IF b < 20
                           THEN addNotification(log,
                                    "Low brightness - may affect visibility", "WARNING")
                           ELSE log]

setDisplayBrightness(brightness) ==
    LET r == displayBrightnessSet(brightness, notifications)
    IN  /\ systemSettings' = [systemSettings EXCEPT
                                  !.displayBrightness = r.displayBrightness]
        /\ notifications' = r.notifications
        /\ Len(notifications') <= MaxLog
        /\ UNCHANGED <<navigator, vehicleMonitor, mediaPlayer, soundEnabled>>

setDisplayTheme(newTheme) ==
    /\ systemSettings' = [systemSettings EXCEPT !.theme = newTheme]
    /\ notifications' = addNotification(notifications,
                            "Theme changed to " \o themeToString(newTheme), "INFO")
    /\ Len(notifications') <= MaxLog
    /\ UNCHANGED <<navigator, vehicleMonitor, mediaPlayer, soundEnabled>>

setLanguage(lang) ==
    /\ systemSettings' = [systemSettings EXCEPT !.language = lang]
    /\ notifications' = addNotification(notifications,
                            "Language changed to " \o languageToString(lang), "INFO")
    /\ Len(notifications') <= MaxLog
    /\ UNCHANGED <<navigator, vehicleMonitor, mediaPlayer, soundEnabled>>

\* enabling the night mode lowers a brightness above 30 to 30 through
\* setDisplayBrightness and reports the adjustment
setNightMode(enabled) ==
    IF enabled /\ systemSettings.displayBrightness > 30
    THEN LET r == displayBrightnessSet(30, notifications)
         IN  /\ systemSettings' = [systemSettings EXCEPT
                                       !.nightModeEnabled = enabled,
                                       !.displayBrightness = r.displayBrightness]
             /\ notifications' = addNotification(r.notifications,
                                     "Brightness auto-adjusted for night mode", "INFO")
             /\ Len(notifications') <= MaxLog
             /\ UNCHANGED <<navigator, vehicleMonitor, mediaPlayer, soundEnabled>>
    ELSE /\ systemSettings' = [systemSettings EXCEPT !.nightModeEnabled = enabled]
         /\ UNCHANGED <<navigator, notifications, vehicleMonitor, mediaPlayer,
                        soundEnabled>>

setVoiceGuidance(enabled) ==
    /\ systemSettings' = [systemSettings EXCEPT !.voiceGuidanceEnabled = enabled]
    /\ UNCHANGED <<navigator, notifications, vehicleMonitor, mediaPlayer, soundEnabled>>

setNotificationSounds(enabled) ==
    /\ systemSettings' = [systemSettings EXCEPT !.notificationSoundsEnabled = enabled]
    /\ setSoundEnabled(enabled)
    /\ UNCHANGED <<navigator, notifications, vehicleMonitor, mediaPlayer>>

areNotificationSoundsEnabled(settings) == settings.notificationSoundsEnabled

setTimeFormat(format) ==
    IF format = "12h" \/ format = "24h"
    THEN /\ systemSettings' = [systemSettings EXCEPT !.timeFormat = format]
         /\ UNCHANGED <<navigator, notifications, vehicleMonitor, mediaPlayer,
                        soundEnabled>>
    ELSE /\ notifications' = addNotification(notifications,
                                 "Invalid time format. Use '12h' or '24h'", "WARNING")
         /\ Len(notifications') <= MaxLog
         /\ UNCHANGED <<navigator, vehicleMonitor, mediaPlayer, systemSettings,
                        soundEnabled>>

setTemperatureUnit(unit) ==
    IF unit = "C" \/ unit = "F"
    THEN /\ systemSettings' = [systemSettings EXCEPT !.temperatureUnit = unit]
         /\ UNCHANGED <<navigator, notifications, vehicleMonitor, mediaPlayer,
                        soundEnabled>>
    ELSE /\ notifications' = addNotification(notifications,
                                 "Invalid temperature unit. Use 'C' or 'F'", "WARNING")
         /\ Len(notifications') <= MaxLog
         /\ UNCHANGED <<navigator, vehicleMonitor, mediaPlayer, systemSettings,
                        soundEnabled>>

\* every setting returns to its default; the NotificationManager is only notified
resetToDefaults ==
    /\ systemSettings' = [systemVolume |-> 50, displayBrightness |-> 75, theme |-> "AUTO",
                          language |-> "ENGLISH", nightModeEnabled |-> FALSE,
                          voiceGuidanceEnabled |-> TRUE,
                          notificationSoundsEnabled |-> TRUE, timeFormat |-> "12h",
                          temperatureUnit |-> "C"]
    /\ notifications' = addNotification(notifications, "All settings reset to defaults",
                                        "INFO")
    /\ Len(notifications') <= MaxLog
    /\ UNCHANGED <<navigator, vehicleMonitor, mediaPlayer, soundEnabled>>

saveSettings ==
    /\ notifications' = addNotification(notifications, "Settings saved", "INFO")
    /\ Len(notifications') <= MaxLog
    /\ UNCHANGED <<navigator, vehicleMonitor, mediaPlayer, systemSettings, soundEnabled>>

loadSettings ==
    /\ notifications' = addNotification(notifications, "Settings loaded", "INFO")
    /\ Len(notifications') <= MaxLog
    /\ UNCHANGED <<navigator, vehicleMonitor, mediaPlayer, systemSettings, soundEnabled>>

(***************************************************************************)
(* GPSNavigator                                                            *)
(***************************************************************************)
\* a constructor that starts without a GPS signal
Init_SignalOff ==
    /\ currentLocation = GPSCoordinate(0, 0, 0)
    /\ destination = GPSCoordinate(0, 0, 0)
    /\ status = "IDLE"
    /\ currentSpeed = 0
    /\ currentHeading = 0
    /\ gpsSignalAvailable = FALSE
    /\ satelliteCount = 8
    /\ accuracy = 3
    /\ route = <<>>
    /\ notifications = <<>>
    /\ called = {}
    /\ vehicleMonitor = VehicleMonitor
    /\ mediaPlayer = MediaPlayer
    /\ systemSettings = SystemSettings
    /\ soundEnabled = TRUE

\* a constructor that starts with the signal flag set and no satellite in view
Init_NoSatellites ==
    /\ currentLocation = GPSCoordinate(0, 0, 0)
    /\ destination = GPSCoordinate(0, 0, 0)
    /\ status = "IDLE"
    /\ currentSpeed = 0
    /\ currentHeading = 0
    /\ gpsSignalAvailable = TRUE
    /\ satelliteCount = 0
    /\ accuracy = 3
    /\ route = <<>>
    /\ notifications = <<>>
    /\ called = {}
    /\ vehicleMonitor = VehicleMonitor
    /\ mediaPlayer = MediaPlayer
    /\ systemSettings = SystemSettings
    /\ soundEnabled = TRUE

Init ==
    /\ currentLocation = GPSCoordinate(0, 0, 0)
    /\ destination = GPSCoordinate(0, 0, 0)
    /\ status = "IDLE"
    /\ currentSpeed = 0
    /\ currentHeading = 0
    /\ gpsSignalAvailable = TRUE
    /\ satelliteCount = 8
    /\ accuracy = 3
    /\ route = <<>>
    /\ notifications = <<>>
    /\ called = {}
    /\ vehicleMonitor = VehicleMonitor
    /\ mediaPlayer = MediaPlayer
    /\ systemSettings = SystemSettings
    /\ soundEnabled = TRUE

\* San Francisco and Los Angeles, and two points opposite each other on the globe
SanFrancisco == GPSCoordinate(377749, -1224194, 0)
LosAngeles == GPSCoordinate(340522, -1182437, 0)
FarSouth == GPSCoordinate(-816000, 0, 0)
FarNorth == GPSCoordinate(816000, 1800000, 0)
GeodesyInputs == {SanFrancisco, LosAngeles, FarSouth, FarNorth, InvalidLon}

\* the area the vehicle of simulateGPSUpdate stays in
SimulationArea == {GPSCoordinate(lat, lon, 0) : lat \in {0, 5, 10}, lon \in {0, 5}}

\* calculateDistance over the coordinates of the model, evaluated once
DistanceTable ==
    [c1 \in CoordinateInputs \cup GeodesyInputs \cup SimulationArea,
     c2 \in CoordinateInputs \cup GeodesyInputs \cup SimulationArea
         |-> calculateDistance(c1, c2)]

getDistanceToDestination(loc, dest) ==
    IF ~isValid(dest) \/ ~isValid(loc) THEN FromInt[-1]
    ELSE DistanceTable[loc, dest]

\* getEstimatedTimeToArrival without the conversion of hours to minutes
getEstimatedTimeToArrival_Hours(loc, dest, speed) ==
    LET distance == getDistanceToDestination(loc, dest)
    IN  IF FLt[distance, FZero] \/ speed <= 0 THEN FromInt[-1]
        ELSE FDiv[distance, FromInt[speed]]

getEstimatedTimeToArrival(loc, dest, speed) ==
    LET distance == getDistanceToDestination(loc, dest)
    IN  IF FLt[distance, FZero] \/ speed <= 0 THEN FromInt[-1]
        ELSE FMul[FDiv[distance, FromInt[speed]], FromInt[60]]

\* checkGPSSignal that does not resume the navigation when the signal is restored
checkGPSSignal_NoResume(st, previousSignalStatus, sats, acc, log) ==
    LET avail == (sats >= MIN_SATELLITES /\ acc <= MIN_GPS_ACCURACY)
    IN  IF ~avail /\ previousSignalStatus
        THEN [status |-> IF st = "NAVIGATING" THEN "GPS_LOST" ELSE st,
              gpsSignalAvailable |-> avail,
              notifications |-> addNotification(log, "GPS signal lost!", "CRITICAL")]
        ELSE IF avail /\ ~previousSignalStatus
        THEN [status |-> st,
              gpsSignalAvailable |-> avail,
              notifications |-> addNotification(log, "GPS signal restored", "INFO")]
        ELSE [status |-> st, gpsSignalAvailable |-> avail, notifications |-> log]

\* checkGPSSignal with accuracy < MIN_GPS_ACCURACY in place of <=
checkGPSSignal_StrictAccuracy(st, previousSignalStatus, sats, acc, log) ==
    LET avail == (sats >= MIN_SATELLITES /\ acc < MIN_GPS_ACCURACY)
    IN  IF ~avail /\ previousSignalStatus
        THEN [status |-> IF st = "NAVIGATING" THEN "GPS_LOST" ELSE st,
              gpsSignalAvailable |-> avail,
              notifications |-> addNotification(log, "GPS signal lost!", "CRITICAL")]
        ELSE IF avail /\ ~previousSignalStatus
        THEN [status |-> IF st = "GPS_LOST" THEN "NAVIGATING" ELSE st,
              gpsSignalAvailable |-> avail,
              notifications |-> addNotification(log, "GPS signal restored", "INFO")]
        ELSE [status |-> st, gpsSignalAvailable |-> avail, notifications |-> log]

\* checkGPSSignal that reports every poor reading, not only the loss of the signal
checkGPSSignal_AlwaysNotify(st, previousSignalStatus, sats, acc, log) ==
    LET avail == (sats >= MIN_SATELLITES /\ acc <= MIN_GPS_ACCURACY)
    IN  IF ~avail
        THEN [status |-> IF st = "NAVIGATING" THEN "GPS_LOST" ELSE st,
              gpsSignalAvailable |-> avail,
              notifications |-> addNotification(log, "GPS signal lost!", "CRITICAL")]
        ELSE IF avail /\ ~previousSignalStatus
        THEN [status |-> IF st = "GPS_LOST" THEN "NAVIGATING" ELSE st,
              gpsSignalAvailable |-> avail,
              notifications |-> addNotification(log, "GPS signal restored", "INFO")]
        ELSE [status |-> st, gpsSignalAvailable |-> avail, notifications |-> log]

\* checkGPSSignal that sets GPS_LOST without the test of the status
checkGPSSignal_LostAnyStatus(st, previousSignalStatus, sats, acc, log) ==
    LET avail == (sats >= MIN_SATELLITES /\ acc <= MIN_GPS_ACCURACY)
    IN  IF ~avail /\ previousSignalStatus
        THEN [status |-> "GPS_LOST",
              gpsSignalAvailable |-> avail,
              notifications |-> addNotification(log, "GPS signal lost!", "CRITICAL")]
        ELSE IF avail /\ ~previousSignalStatus
        THEN [status |-> IF st = "GPS_LOST" THEN "NAVIGATING" ELSE st,
              gpsSignalAvailable |-> avail,
              notifications |-> addNotification(log, "GPS signal restored", "INFO")]
        ELSE [status |-> st, gpsSignalAvailable |-> avail, notifications |-> log]

\* checkGPSSignal that assigns OFF_ROUTE in place of GPS_LOST
checkGPSSignal_OffRoute(st, previousSignalStatus, sats, acc, log) ==
    LET avail == (sats >= MIN_SATELLITES /\ acc <= MIN_GPS_ACCURACY)
    IN  IF ~avail /\ previousSignalStatus
        THEN [status |-> IF st = "NAVIGATING" THEN "OFF_ROUTE" ELSE st,
              gpsSignalAvailable |-> avail,
              notifications |-> addNotification(log, "GPS signal lost!", "CRITICAL")]
        ELSE IF avail /\ ~previousSignalStatus
        THEN [status |-> IF st = "GPS_LOST" THEN "NAVIGATING" ELSE st,
              gpsSignalAvailable |-> avail,
              notifications |-> addNotification(log, "GPS signal restored", "INFO")]
        ELSE [status |-> st, gpsSignalAvailable |-> avail, notifications |-> log]

\* checkGPSSignal that leaves the status NAVIGATING when the signal is lost
checkGPSSignal_KeepNavigating(st, previousSignalStatus, sats, acc, log) ==
    LET avail == (sats >= MIN_SATELLITES /\ acc <= MIN_GPS_ACCURACY)
    IN  IF ~avail /\ previousSignalStatus
        THEN [status |-> st,
              gpsSignalAvailable |-> avail,
              notifications |-> addNotification(log, "GPS signal lost!", "CRITICAL")]
        ELSE IF avail /\ ~previousSignalStatus
        THEN [status |-> IF st = "GPS_LOST" THEN "NAVIGATING" ELSE st,
              gpsSignalAvailable |-> avail,
              notifications |-> addNotification(log, "GPS signal restored", "INFO")]
        ELSE [status |-> st, gpsSignalAvailable |-> avail, notifications |-> log]

\* checkGPSSignal that reports every good reading, not only the return of the signal
checkGPSSignal_RestoredRepeated(st, previousSignalStatus, sats, acc, log) ==
    LET avail == (sats >= MIN_SATELLITES /\ acc <= MIN_GPS_ACCURACY)
    IN  IF ~avail /\ previousSignalStatus
        THEN [status |-> IF st = "NAVIGATING" THEN "GPS_LOST" ELSE st,
              gpsSignalAvailable |-> avail,
              notifications |-> addNotification(log, "GPS signal lost!", "CRITICAL")]
        ELSE IF avail
        THEN [status |-> IF st = "GPS_LOST" THEN "NAVIGATING" ELSE st,
              gpsSignalAvailable |-> avail,
              notifications |-> addNotification(log, "GPS signal restored", "INFO")]
        ELSE [status |-> st, gpsSignalAvailable |-> avail, notifications |-> log]

\* status, gpsSignalAvailable and the log after checkGPSSignal()
checkGPSSignal(st, previousSignalStatus, sats, acc, log) ==
    LET avail == (sats >= MIN_SATELLITES /\ acc <= MIN_GPS_ACCURACY)
    IN  IF ~avail /\ previousSignalStatus
        THEN [status |-> IF st = "NAVIGATING" THEN "GPS_LOST" ELSE st,
              gpsSignalAvailable |-> avail,
              notifications |-> addNotification(log, "GPS signal lost!", "CRITICAL")]
        ELSE IF avail /\ ~previousSignalStatus
        THEN [status |-> IF st = "GPS_LOST" THEN "NAVIGATING" ELSE st,
              gpsSignalAvailable |-> avail,
              notifications |-> addNotification(log, "GPS signal restored", "INFO")]
        ELSE [status |-> st, gpsSignalAvailable |-> avail, notifications |-> log]

\* updateLocation that reports the arrival in any status
updateLocation_ArriveAnyStatus(location) ==
    IF ~isValid(location)
    THEN /\ notifications' = addNotification(notifications,
                                 "Invalid GPS coordinates received", "WARNING")
         /\ Len(notifications') <= MaxLog
         /\ UNCHANGED <<currentLocation, destination, status, currentSpeed, currentHeading,
                        gpsSignalAvailable, satelliteCount, accuracy, route, called,
                        vehicleMonitor, infotainment>>
    ELSE LET chk == checkGPSSignal(status, gpsSignalAvailable, satelliteCount, accuracy,
                                   notifications)
             distanceToDestination == getDistanceToDestination(location, destination)
             arrived == FLt[distanceToDestination, ArrivalRadiusKm]
         IN  /\ currentLocation' = location
             /\ gpsSignalAvailable' = chk.gpsSignalAvailable
             /\ status' = IF arrived THEN "ARRIVED" ELSE chk.status
             /\ notifications' = IF arrived
                                 THEN addNotification(chk.notifications,
                                          "Destination reached!", "INFO")
                                 ELSE chk.notifications
             /\ Len(notifications') <= MaxLog
             /\ UNCHANGED <<destination, currentSpeed, currentHeading, satelliteCount,
                            accuracy, route, called, vehicleMonitor, infotainment>>

\* currentLocation, gpsSignalAvailable, status and the log after updateLocation(location)
afterUpdateLocation(location) ==
    IF ~isValid(location)
    THEN [currentLocation |-> currentLocation,
          gpsSignalAvailable |-> gpsSignalAvailable,
          status |-> status,
          notifications |-> addNotification(notifications,
                                "Invalid GPS coordinates received", "WARNING")]
    ELSE LET chk == checkGPSSignal(status, gpsSignalAvailable, satelliteCount, accuracy,
                                   notifications)
             distanceToDestination == getDistanceToDestination(location, destination)
             arrived == chk.status = "NAVIGATING" /\
                        FLt[distanceToDestination, ArrivalRadiusKm]
         IN  [currentLocation |-> location,
              gpsSignalAvailable |-> chk.gpsSignalAvailable,
              status |-> IF arrived THEN "ARRIVED" ELSE chk.status,
              notifications |-> IF arrived
                                THEN addNotification(chk.notifications,
                                         "Destination reached!", "INFO")
                                ELSE chk.notifications]

\* the assignments of updateLocation, given the fields after it
locationUpdated(after) ==
    /\ currentLocation' = after.currentLocation
    /\ gpsSignalAvailable' = after.gpsSignalAvailable
    /\ status' = after.status
    /\ notifications' = after.notifications
    /\ Len(notifications') <= MaxLog
    /\ UNCHANGED <<destination, currentSpeed, currentHeading, satelliteCount,
                   accuracy, route, called, vehicleMonitor, infotainment>>

updateLocation(location) == locationUpdated(afterUpdateLocation(location))

\* setDestination without the test of the coordinate
setDestination_NoValidation(dest, name) ==
    /\ destination' = dest
    /\ status' = "IDLE"
    /\ notifications' = addNotification(notifications,
                            "Destination set: " \o name, "INFO")
    /\ Len(notifications') <= MaxLog
    /\ called' = called \cup {"setDestination"}
    /\ UNCHANGED <<currentLocation, currentSpeed, currentHeading, gpsSignalAvailable,
                   satelliteCount, accuracy, route, vehicleMonitor, infotainment>>

\* setDestination that leaves the status as it is
setDestination_KeepStatus(dest, name) ==
    IF ~isValid(dest)
    THEN /\ notifications' = addNotification(notifications,
                                 "Invalid destination coordinates", "WARNING")
         /\ Len(notifications') <= MaxLog
         /\ UNCHANGED <<currentLocation, destination, status, currentSpeed, currentHeading,
                        gpsSignalAvailable, satelliteCount, accuracy, route, called,
                        vehicleMonitor, infotainment>>
    ELSE /\ destination' = dest
         /\ notifications' = addNotification(notifications,
                                 "Destination set: " \o name, "INFO")
         /\ Len(notifications') <= MaxLog
         /\ called' = called \cup {"setDestination"}
         /\ UNCHANGED <<currentLocation, status, currentSpeed, currentHeading,
                        gpsSignalAvailable, satelliteCount, accuracy, route,
                        vehicleMonitor, infotainment>>

\* setDestination that also empties the route
setDestination_ClearsRoute(dest, name) ==
    IF ~isValid(dest)
    THEN /\ notifications' = addNotification(notifications,
                                 "Invalid destination coordinates", "WARNING")
         /\ Len(notifications') <= MaxLog
         /\ UNCHANGED <<currentLocation, destination, status, currentSpeed, currentHeading,
                        gpsSignalAvailable, satelliteCount, accuracy, route, called,
                        vehicleMonitor, infotainment>>
    ELSE /\ destination' = dest
         /\ status' = "IDLE"
         /\ route' = <<>>
         /\ notifications' = addNotification(notifications,
                                 "Destination set: " \o name, "INFO")
         /\ Len(notifications') <= MaxLog
         /\ called' = called \cup {"setDestination"}
         /\ UNCHANGED <<currentLocation, currentSpeed, currentHeading, gpsSignalAvailable,
                        satelliteCount, accuracy, vehicleMonitor, infotainment>>

setDestination(dest, name) ==
    IF ~isValid(dest)
    THEN /\ notifications' = addNotification(notifications,
                                 "Invalid destination coordinates", "WARNING")
         /\ Len(notifications') <= MaxLog
         /\ UNCHANGED <<currentLocation, destination, status, currentSpeed, currentHeading,
                        gpsSignalAvailable, satelliteCount, accuracy, route, called,
                        vehicleMonitor, infotainment>>
    ELSE /\ destination' = dest
         /\ status' = "IDLE"
         /\ notifications' = addNotification(notifications,
                                 "Destination set: " \o name, "INFO")
         /\ Len(notifications') <= MaxLog
         /\ called' = called \cup {"setDestination"}
         /\ UNCHANGED <<currentLocation, currentSpeed, currentHeading, gpsSignalAvailable,
                        satelliteCount, accuracy, route, vehicleMonitor, infotainment>>

\* startNavigation without the test of the GPS signal
startNavigation_NoSignalCheck ==
    IF ~isValid(destination)
    THEN /\ notifications' = addNotification(notifications,
                                 "No destination set for navigation", "WARNING")
         /\ Len(notifications') <= MaxLog
         /\ UNCHANGED <<currentLocation, destination, status, currentSpeed, currentHeading,
                        gpsSignalAvailable, satelliteCount, accuracy, route, called,
                        vehicleMonitor, infotainment>>
    ELSE /\ status' = "NAVIGATING"
         /\ notifications' = addNotification(notifications,
                                 "Navigation started - Distance: ", "INFO")
         /\ Len(notifications') <= MaxLog
         /\ UNCHANGED <<currentLocation, destination, currentSpeed, currentHeading,
                        gpsSignalAvailable, satelliteCount, accuracy, route, called,
                        vehicleMonitor, infotainment>>

\* startNavigation that reports the arrival when the vehicle is already within
\* 0.1 km of the destination
startNavigation_ArriveAtOnce ==
    IF ~isValid(destination)
    THEN /\ notifications' = addNotification(notifications,
                                 "No destination set for navigation", "WARNING")
         /\ Len(notifications') <= MaxLog
         /\ UNCHANGED <<currentLocation, destination, status, currentSpeed, currentHeading,
                        gpsSignalAvailable, satelliteCount, accuracy, route, called,
                        vehicleMonitor, infotainment>>
    ELSE IF ~gpsSignalAvailable
    THEN /\ notifications' = addNotification(notifications,
                                 "GPS signal unavailable - cannot start navigation",
                                 "CRITICAL")
         /\ Len(notifications') <= MaxLog
         /\ UNCHANGED <<currentLocation, destination, status, currentSpeed, currentHeading,
                        gpsSignalAvailable, satelliteCount, accuracy, route, called,
                        vehicleMonitor, infotainment>>
    ELSE /\ status' = IF FLt[getDistanceToDestination(currentLocation, destination),
                             ArrivalRadiusKm]
                      THEN "ARRIVED" ELSE "NAVIGATING"
         /\ notifications' = addNotification(notifications,
                                 "Navigation started - Distance: ", "INFO")
         /\ Len(notifications') <= MaxLog
         /\ UNCHANGED <<currentLocation, destination, currentSpeed, currentHeading,
                        gpsSignalAvailable, satelliteCount, accuracy, route, called,
                        vehicleMonitor, infotainment>>

startNavigation ==
    IF ~isValid(destination)
    THEN /\ notifications' = addNotification(notifications,
                                 "No destination set for navigation", "WARNING")
         /\ Len(notifications') <= MaxLog
         /\ UNCHANGED <<currentLocation, destination, status, currentSpeed, currentHeading,
                        gpsSignalAvailable, satelliteCount, accuracy, route, called,
                        vehicleMonitor, infotainment>>
    ELSE IF ~gpsSignalAvailable
    THEN /\ notifications' = addNotification(notifications,
                                 "GPS signal unavailable - cannot start navigation",
                                 "CRITICAL")
         /\ Len(notifications') <= MaxLog
         /\ UNCHANGED <<currentLocation, destination, status, currentSpeed, currentHeading,
                        gpsSignalAvailable, satelliteCount, accuracy, route, called,
                        vehicleMonitor, infotainment>>
    ELSE /\ status' = "NAVIGATING"
         /\ notifications' = addNotification(notifications,
                                 "Navigation started - Distance: ", "INFO")
         /\ Len(notifications') <= MaxLog
         /\ UNCHANGED <<currentLocation, destination, currentSpeed, currentHeading,
                        gpsSignalAvailable, satelliteCount, accuracy, route, called,
                        vehicleMonitor, infotainment>>

\* stopNavigation without the call of clearRoute
stopNavigation_KeepRoute ==
    /\ status' = "IDLE"
    /\ notifications' = addNotification(notifications, "Navigation stopped", "INFO")
    /\ Len(notifications') <= MaxLog
    /\ UNCHANGED <<currentLocation, destination, currentSpeed, currentHeading,
                   gpsSignalAvailable, satelliteCount, accuracy, route, called,
                   vehicleMonitor, infotainment>>

\* stopNavigation that also forgets the destination
stopNavigation_ForgetsDestination ==
    /\ status' = "IDLE"
    /\ route' = <<>>
    /\ destination' = GPSCoordinate(0, 0, 0)
    /\ notifications' = addNotification(notifications, "Navigation stopped", "INFO")
    /\ Len(notifications') <= MaxLog
    /\ UNCHANGED <<currentLocation, currentSpeed, currentHeading,
                   gpsSignalAvailable, satelliteCount, accuracy, called,
                   vehicleMonitor, infotainment>>

stopNavigation ==
    /\ status' = "IDLE"
    /\ route' = <<>>
    /\ notifications' = addNotification(notifications, "Navigation stopped", "INFO")
    /\ Len(notifications') <= MaxLog
    /\ UNCHANGED <<currentLocation, destination, currentSpeed, currentHeading,
                   gpsSignalAvailable, satelliteCount, accuracy, called,
                   vehicleMonitor, infotainment>>

\* addWaypoint without the test of the coordinate
addWaypoint_NoValidation(waypoint) ==
    /\ route' = Append(route, waypoint)
    /\ Len(route') <= MaxRoute
    /\ notifications' = addNotification(notifications,
                            "Waypoint added: " \o waypoint.name, "INFO")
    /\ Len(notifications') <= MaxLog
    /\ UNCHANGED <<currentLocation, destination, status, currentSpeed, currentHeading,
                   gpsSignalAvailable, satelliteCount, accuracy, called,
                   vehicleMonitor, infotainment>>

\* addWaypoint that inserts at the front of the route
addWaypoint_Prepend(waypoint) ==
    IF ~isValid(waypoint.coordinate)
    THEN /\ notifications' = addNotification(notifications,
                                 "Invalid waypoint coordinates", "WARNING")
         /\ Len(notifications') <= MaxLog
         /\ UNCHANGED <<currentLocation, destination, status, currentSpeed, currentHeading,
                        gpsSignalAvailable, satelliteCount, accuracy, route, called,
                        vehicleMonitor, infotainment>>
    ELSE /\ route' = <<waypoint>> \o route
         /\ Len(route') <= MaxRoute
         /\ notifications' = addNotification(notifications,
                                 "Waypoint added: " \o waypoint.name, "INFO")
         /\ Len(notifications') <= MaxLog
         /\ UNCHANGED <<currentLocation, destination, status, currentSpeed, currentHeading,
                        gpsSignalAvailable, satelliteCount, accuracy, called,
                        vehicleMonitor, infotainment>>

addWaypoint(waypoint) ==
    IF ~isValid(waypoint.coordinate)
    THEN /\ notifications' = addNotification(notifications,
                                 "Invalid waypoint coordinates", "WARNING")
         /\ Len(notifications') <= MaxLog
         /\ UNCHANGED <<currentLocation, destination, status, currentSpeed, currentHeading,
                        gpsSignalAvailable, satelliteCount, accuracy, route, called,
                        vehicleMonitor, infotainment>>
    ELSE /\ route' = Append(route, waypoint)
         /\ Len(route') <= MaxRoute
         /\ notifications' = addNotification(notifications,
                                 "Waypoint added: " \o waypoint.name, "INFO")
         /\ Len(notifications') <= MaxLog
         /\ UNCHANGED <<currentLocation, destination, status, currentSpeed, currentHeading,
                        gpsSignalAvailable, satelliteCount, accuracy, called,
                        vehicleMonitor, infotainment>>

\* clearRoute that also resets the status, as stopNavigation does
clearRoute_ResetsStatus ==
    /\ route' = <<>>
    /\ status' = "IDLE"
    /\ UNCHANGED <<currentLocation, destination, currentSpeed, currentHeading,
                   gpsSignalAvailable, satelliteCount, accuracy, notifications, called,
                   vehicleMonitor, infotainment>>

clearRoute ==
    /\ route' = <<>>
    /\ UNCHANGED <<currentLocation, destination, status, currentSpeed, currentHeading,
                   gpsSignalAvailable, satelliteCount, accuracy, notifications, called,
                   vehicleMonitor, infotainment>>

\* updateSpeed that stores the speed as it is given
updateSpeed_NoClamp(speed) ==
    /\ currentSpeed' = speed
    /\ UNCHANGED <<currentLocation, destination, status, currentHeading,
                   gpsSignalAvailable, satelliteCount, accuracy, route, notifications, called,
                   vehicleMonitor, infotainment>>

updateSpeed(speed) ==
    /\ currentSpeed' = Max(0, speed)
    /\ UNCHANGED <<currentLocation, destination, status, currentHeading,
                   gpsSignalAvailable, satelliteCount, accuracy, route, notifications, called,
                   vehicleMonitor, infotainment>>

RECURSIVE WhileNegative(_)
WhileNegative(heading) == IF heading < 0 THEN WhileNegative(heading + 360) ELSE heading

RECURSIVE WhileFullTurn(_)
WhileFullTurn(heading) == IF heading >= 360 THEN WhileFullTurn(heading - 360) ELSE heading

\* updateHeading with one addition and one subtraction in place of the loops
updateHeading_SingleWrap(heading) ==
    LET raised == IF heading < 0 THEN heading + 360 ELSE heading
    IN  /\ currentHeading' = (IF raised >= 360 THEN raised - 360 ELSE raised)
        /\ UNCHANGED <<currentLocation, destination, status, currentSpeed,
                       gpsSignalAvailable, satelliteCount, accuracy, route,
                       notifications, called, vehicleMonitor, infotainment>>

updateHeading(heading) ==
    /\ currentHeading' = WhileFullTurn(WhileNegative(heading))
    /\ UNCHANGED <<currentLocation, destination, status, currentSpeed,
                   gpsSignalAvailable, satelliteCount, accuracy, route, notifications, called,
                   vehicleMonitor, infotainment>>

updateGPSSignal(satellites, acc) ==
    LET chk == checkGPSSignal(status, gpsSignalAvailable, Max(0, satellites), Max(0, acc),
                              notifications)
    IN  /\ satelliteCount' = Max(0, satellites)
        /\ accuracy' = Max(0, acc)
        /\ gpsSignalAvailable' = chk.gpsSignalAvailable
        /\ status' = chk.status
        /\ notifications' = chk.notifications
        /\ Len(notifications') <= MaxLog
        /\ called' = called \cup {"updateGPSSignal"}
        /\ UNCHANGED <<currentLocation, destination, currentSpeed, currentHeading, route,
                       vehicleMonitor, infotainment>>

\* the draws of simulateGPSUpdate: the change of latitude and of longitude (out of
\* -0.001 .. 0.001 degrees), of the speed (-2 .. 5) and of the heading (-10 .. 10),
\* the satellites (4 .. 12) and the accuracy (1.0 .. 8.0)
CoordinateDraws == {-5, 5}
SpeedDraws == {-2, 5}
HeadingDraws == {-10, 10}
SatelliteDraws == {4, 12}
AccuracyDraws == {1, 8}

\* the simulated vehicle stays below this speed and within this many degrees of north
MaxSimulatedSpeed == 5
MaxSimulatedTurn == 10

\* the fields after the updateGPSSignal that ends simulateGPSUpdate: `after' holds
\* the fields after its updateLocation, `chk' the outcome of checkGPSSignal
signalSimulated(after, speed, heading, satellites, acc, chk) ==
    [currentLocation |-> after.currentLocation,
     currentSpeed |-> Max(0, speed),
     currentHeading |-> WhileFullTurn(WhileNegative(heading)),
     satelliteCount |-> satellites,
     accuracy |-> acc,
     gpsSignalAvailable |-> chk.gpsSignalAvailable,
     status |-> chk.status,
     notifications |-> chk.notifications]

\* the fields after updateSpeed, updateHeading and updateGPSSignal, called in turn
\* on the fields `after' that updateLocation left
updatesSimulated(after, speed, heading, satellites, acc) ==
    signalSimulated(after, speed, heading, satellites, acc,
                    checkGPSSignal(after.status, after.gpsSignalAvailable, satellites, acc,
                                   after.notifications))

\* simulateGPSUpdate with satellite counts one lower, 3 .. 11
simulatedGPSUpdate_FewerSatellites(coordLat, coordLon, speedVar, headingVar, satVar, accVar) ==
    updatesSimulated(
        afterUpdateLocation(GPSCoordinate(currentLocation.latitude + coordLat,
                                          currentLocation.longitude + coordLon,
                                          currentLocation.altitude)),
        Max(0, currentSpeed + speedVar), currentHeading + headingVar,
        Max(0, satVar - 1), Max(0, accVar))

\* the fields of the navigator and the log after simulateGPSUpdate() with the given
\* draws: updateLocation, updateSpeed, updateHeading and updateGPSSignal in turn
simulatedGPSUpdate(coordLat, coordLon, speedVar, headingVar, satVar, accVar) ==
    updatesSimulated(
        afterUpdateLocation(GPSCoordinate(currentLocation.latitude + coordLat,
                                          currentLocation.longitude + coordLon,
                                          currentLocation.altitude)),
        Max(0, currentSpeed + speedVar), currentHeading + headingVar,
        Max(0, satVar), Max(0, accVar))

\* the draws that keep the simulated vehicle within the bounds of the model
WithinSimulation(coordLat, coordLon, speedVar, headingVar) ==
    /\ GPSCoordinate(currentLocation.latitude + coordLat,
                     currentLocation.longitude + coordLon,
                     currentLocation.altitude) \in SimulationArea
    /\ Max(0, currentSpeed + speedVar) <= MaxSimulatedSpeed
    /\ LET heading == WhileFullTurn(WhileNegative(currentHeading + headingVar))
       IN  heading <= MaxSimulatedTurn \/ heading >= 360 - MaxSimulatedTurn

\* the assignments of simulateGPSUpdate, given the fields after it
gpsUpdateSimulated(after) ==
    /\ currentLocation' = after.currentLocation
    /\ currentSpeed' = after.currentSpeed
    /\ currentHeading' = after.currentHeading
    /\ satelliteCount' = after.satelliteCount
    /\ accuracy' = after.accuracy
    /\ gpsSignalAvailable' = after.gpsSignalAvailable
    /\ status' = after.status
    /\ notifications' = after.notifications
    /\ Len(notifications') <= MaxLog
    /\ called' = called \cup {"updateGPSSignal"}
    /\ UNCHANGED <<destination, route, vehicleMonitor, infotainment>>

simulateGPSUpdate(coordLat, coordLon, speedVar, headingVar, satVar, accVar) ==
    /\ WithinSimulation(coordLat, coordLon, speedVar, headingVar)
    /\ gpsUpdateSimulated(simulatedGPSUpdate(coordLat, coordLon, speedVar, headingVar,
                                             satVar, accVar))

Next ==
    \/ \E location \in LocationInputs : updateLocation(location)
    \/ \E dest \in DestinationInputs, name \in DestinationNames : setDestination(dest, name)
    \/ startNavigation
    \/ stopNavigation
    \/ \E waypoint \in WaypointInputs : addWaypoint(waypoint)
    \/ clearRoute
    \/ \E speed \in SpeedInputs : updateSpeed(speed)
    \/ \E heading \in HeadingInputs : updateHeading(heading)
    \/ \E signal \in SignalInputs : updateGPSSignal(signal[1], signal[2])
    \/ clearNotifications

Spec == Init /\ [][Next]_vars

(***************************************************************************)
(* The route: every operation that reads or writes the route or the log,   *)
(* with two valid waypoints, so that the order of the route is observable. *)
(***************************************************************************)
RouteWaypointInputs == {Waypoint(North55m, "Waypoint 1", "Address 1"),
                        Waypoint(North111m, "Waypoint 2", ""),
                        Waypoint(InvalidLat, "Waypoint 3", "")}
RouteSignalInputs == {<<8, 3>>, <<2, 15>>}

RouteNext ==
    \/ \E waypoint \in RouteWaypointInputs : addWaypoint(waypoint)
    \/ clearRoute
    \/ stopNavigation
    \/ startNavigation
    \/ setDestination(North111m, "Destination")
    \/ updateLocation(North55m)
    \/ \E signal \in RouteSignalInputs : updateGPSSignal(signal[1], signal[2])
    \/ clearNotifications

RouteSpec == Init /\ [][RouteNext]_vars

(***************************************************************************)
(* GPSCoordinate::isValid, applied by updateLocation and setDestination to *)
(* coordinates on, inside and outside the bounds, at several altitudes.    *)
(***************************************************************************)
EdgeLatitudes == {-90 * UnitsPerDegree - 1, -90 * UnitsPerDegree, 0,
                  90 * UnitsPerDegree, 90 * UnitsPerDegree + 1}
EdgeLongitudes == {-180 * UnitsPerDegree - 1, -180 * UnitsPerDegree, 0,
                   180 * UnitsPerDegree, 180 * UnitsPerDegree + 1}
Altitudes == {-500, 9000}
ValidationInputs ==
    {GPSCoordinate(lat, lon, alt) : lat \in EdgeLatitudes, lon \in EdgeLongitudes,
                                    alt \in Altitudes}

ValidationNext ==
    \/ \E location \in ValidationInputs : updateLocation(location)
    \/ \E dest \in ValidationInputs, name \in DestinationNames : setDestination(dest, name)
    \/ clearNotifications

ValidationSpec == Init /\ [][ValidationNext]_vars

(***************************************************************************)
(* updateHeading over headings of up to MaxTurns turns either way: every    *)
(* seventh degree of a turn and the degrees next to 0, 90, 180 and 270     *)
(***************************************************************************)
MaxTurns == 2
HeadingOffsets == {d \in 0 .. 359 : d % 7 = 0} \cup {1, 90, 179, 180, 181, 270, 359}
HeadingRange == {360 * k + d : k \in (-MaxTurns) .. MaxTurns, d \in HeadingOffsets}

HeadingNext ==
    \/ \E heading \in HeadingRange : updateHeading(heading)
    \/ \E speed \in SpeedInputs : updateSpeed(speed)

HeadingSpec == Init /\ [][HeadingNext]_vars

(***************************************************************************)
(* Distances between places far apart: the navigator is moved and sent     *)
(* between cities and between opposite points of the globe.                *)
(***************************************************************************)
GeodesyNext ==
    \/ \E location \in GeodesyInputs : updateLocation(location)
    \/ \E dest \in GeodesyInputs, name \in DestinationNames : setDestination(dest, name)
    \/ \E speed \in SpeedInputs : updateSpeed(speed)
    \/ startNavigation
    \/ clearNotifications

GeodesySpec == Init /\ [][GeodesyNext]_vars

(***************************************************************************)
(* The VehicleMonitor and the log it shares with the GPSNavigator: every   *)
(* setter with a value inside its range and values beyond each bound.      *)
(***************************************************************************)
TemperatureInputs == {-600, 850, 2500}
FuelLevelInputs == {-50, 750, 1200}
ConsumptionRateInputs == {-10, 85}
MonitorSpeedInputs == {-100, 1300}
BrakeWearInputs == {-50, 850, 1500}

MonitorNext ==
    \/ \E temperature \in TemperatureInputs : setEngineTemperature(temperature)
    \/ \E level \in FuelLevelInputs : setFuelLevel(level)
    \/ \E rate \in ConsumptionRateInputs : setFuelConsumptionRate(rate)
    \/ \E speed \in MonitorSpeedInputs : setCurrentSpeed(speed)
    \/ \E wearLevel \in BrakeWearInputs : setBrakeWearLevel(wearLevel)
    \/ performSystemCheck
    \/ \E signal \in RouteSignalInputs : updateGPSSignal(signal[1], signal[2])
    \/ clearNotifications

MonitorSpec == Init /\ [][MonitorNext]_vars

\* the NotificationManager given messages of arbitrary bytes
SanitizeNext ==
    \/ \E message \in MessageInputs, level \in AlertLevel, charIsSigned \in BOOLEAN :
          addNotificationOfBytes(message, level, charIsSigned)
    \/ clearNotifications

SanitizeSpec == Init /\ [][SanitizeNext]_vars

\* the navigator driven by simulateGPSUpdate, with the operations that set a
\* destination, start the navigation and lose the signal
SimulationNext ==
    \/ \E coordLat \in CoordinateDraws, coordLon \in CoordinateDraws,
          speedVar \in SpeedDraws, headingVar \in HeadingDraws,
          satVar \in SatelliteDraws, accVar \in AccuracyDraws :
          simulateGPSUpdate(coordLat, coordLon, speedVar, headingVar, satVar, accVar)
    \/ setDestination(North111m, "Destination")
    \/ startNavigation
    \/ \E signal \in RouteSignalInputs : updateGPSSignal(signal[1], signal[2])
    \/ clearNotifications

SimulationSpec == Init /\ [][SimulationNext]_vars

\* the MediaPlayer driven over a short playlist and the demo playlist
MediaNext ==
    \/ \E track \in {Track("Track A", "Artist A", "Album A", 200),
                     Track("Track B", "Artist B", "Album B", 180)} : addTrack(track)
    \/ loadDemoPlaylist
    \/ play
    \/ pause
    \/ stop
    \/ nextTrack
    \/ previousTrack
    \/ \E vol \in VolumeInputs : setVolume(vol)
    \/ clearNotifications

MediaSpec == Init /\ [][MediaNext]_vars

\* the SystemSettings driven through their operations
SettingsNext ==
    \/ \E volume \in {-5, 150} : setSystemVolume(volume)
    \/ \E brightness \in {10} : setDisplayBrightness(brightness)
    \/ \E newTheme \in {"DARK"} : setDisplayTheme(newTheme)
    \/ \E lang \in {"SPANISH"} : setLanguage(lang)
    \/ \E enabled \in BOOLEAN : setNightMode(enabled)
    \/ \E enabled \in BOOLEAN : setVoiceGuidance(enabled)
    \/ \E enabled \in BOOLEAN : setNotificationSounds(enabled)
    \/ \E format \in {"24h", "25h"} : setTimeFormat(format)
    \/ \E unit \in {"F", "K"} : setTemperatureUnit(unit)
    \/ resetToDefaults
    \/ saveSettings
    \/ loadSettings
    \/ clearNotifications

SettingsSpec == Init /\ [][SettingsNext]_vars

(***************************************************************************)
(* Properties.  A property of an operation is stated of every step that is *)
(* a step of that operation.  The properties state the ranges, thresholds  *)
(* and messages themselves instead of using the definitions above.         *)
(***************************************************************************)
InRange(c) ==
    /\ c.latitude >= -900000 /\ c.latitude <= 900000
    /\ c.longitude >= -1800000 /\ c.longitude <= 1800000

OneTenthKm == FDiv[FromInt[1], FromInt[10]]

Reached == Notification("Destination reached!", "INFO")

Count(log, n) == Cardinality({i \in DOMAIN log : log[i] = n})

\* log2 is log with exactly one notification of level lvl appended
AppendsOne(log, log2, lvl) ==
    /\ Len(log2) = Len(log) + 1
    /\ SubSeq(log2, 1, Len(log)) = log
    /\ log2[Len(log2)].level = lvl

\* C1: in status NAVIGATING, updateLocation(p) with a valid p less than 0.1 km
\* from the destination sets the status to ARRIVED and appends the INFO
\* notification "Destination reached!"; a valid updateLocation in status ARRIVED
\* appends nothing, and "Destination reached!" is appended only by a step from
\* NAVIGATING to ARRIVED, once.
C1_ArrivalNotifiedOnce ==
    [][/\ \A p \in LocationInputs :
            (updateLocation(p) /\ InRange(p)) =>
                /\ (status = "NAVIGATING" /\ FLt[DistanceTable[p, destination], OneTenthKm])
                       => (status' = "ARRIVED" /\
                           notifications' = Append(notifications, Reached))
                /\ status = "ARRIVED"
                       => (status' = "ARRIVED" /\ notifications' = notifications)
       /\ Count(notifications', Reached) > Count(notifications, Reached)
              => (status = "NAVIGATING" /\ status' = "ARRIVED" /\
                  notifications' = Append(notifications, Reached))
      ]_vars

\* the navigator has arrived at a destination that is near, but not at, its location
C1_Witness ==
    /\ status = "ARRIVED"
    /\ notifications = <<Reached>>
    /\ currentLocation # destination
    /\ "setDestination" \in called

\* C2: on a navigator on which no destination has been set, startNavigation()
\* leaves the status IDLE and appends exactly one WARNING notification
\* ("No destination set for navigation").
C2_NoDestinationWarns ==
    [][(startNavigation /\ "setDestination" \notin called) =>
            /\ status' = "IDLE"
            /\ notifications' = Append(notifications,
                   Notification("No destination set for navigation", "WARNING"))
      ]_vars

\* C3: startNavigation() in status IDLE with a valid destination and no GPS signal
\* leaves the status IDLE, appends exactly one CRITICAL notification and changes
\* no other field.
C3_NoSignalNoStart ==
    [][(startNavigation /\ status = "IDLE" /\ InRange(destination) /\ ~gpsSignalAvailable) =>
            /\ status' = "IDLE"
            /\ AppendsOne(notifications, notifications', "CRITICAL")
            /\ notifications'[Len(notifications')].message =
                   "GPS signal unavailable - cannot start navigation"
            /\ UNCHANGED <<destination, currentLocation, route, currentSpeed,
                           currentHeading, gpsSignalAvailable, satelliteCount, accuracy>>
      ]_vars

\* a refused start, on a navigator whose other fields are not the initial ones
C3_Witness ==
    /\ status = "IDLE"
    /\ ~gpsSignalAvailable
    /\ notifications = <<Notification("GPS signal unavailable - cannot start navigation",
                                      "CRITICAL")>>
    /\ route # <<>>
    /\ currentSpeed > 0
    /\ destination # GPSCoordinate(0, 0, 0)

\* C4: startNavigation() in status IDLE with a valid destination and the GPS signal
\* available sets the status to NAVIGATING and appends exactly one INFO
\* notification; the signal is available as long as updateGPSSignal was never
\* called.
C4_StartNavigates ==
    [][(startNavigation /\ status = "IDLE" /\ InRange(destination) /\
        (gpsSignalAvailable \/ "updateGPSSignal" \notin called)) =>
            /\ status' = "NAVIGATING"
            /\ AppendsOne(notifications, notifications', "INFO")
      ]_vars

\* navigation started after one setDestination, without any updateGPSSignal
C4_Witness ==
    /\ status = "NAVIGATING"
    /\ called = {"setDestination"}
    /\ notifications = <<Notification("Navigation started - Distance: ", "INFO")>>

\* C5: in status NAVIGATING, updateGPSSignal(s, a) with s < 4 or a > 10 sets the
\* status to GPS_LOST; in status GPS_LOST, updateGPSSignal(s, a) with s >= 4 and
\* a <= 10 sets the status to NAVIGATING.
C5_SignalLostAndRecovered ==
    [][\A sig \in SignalInputs :
            updateGPSSignal(sig[1], sig[2]) =>
                /\ (status = "NAVIGATING" /\ (sig[1] < 4 \/ sig[2] > 10))
                       => status' = "GPS_LOST"
                /\ (status = "GPS_LOST" /\ sig[1] >= 4 /\ sig[2] <= 10)
                       => status' = "NAVIGATING"
      ]_vars

\* the navigation has resumed with the restored signal
C5_Witness ==
    /\ status = "NAVIGATING"
    /\ notifications = <<Notification("GPS signal restored", "INFO")>>

\* C6: setDestination(d, name) with a valid d sets destination to d and the status
\* to IDLE and appends exactly one INFO notification; route, currentLocation and
\* the signal fields are unchanged.
C6_ValidDestinationResets ==
    [][\A d \in DestinationInputs, n \in DestinationNames :
            (setDestination(d, n) /\ InRange(d)) =>
                /\ destination' = d
                /\ status' = "IDLE"
                /\ AppendsOne(notifications, notifications', "INFO")
                /\ UNCHANGED <<route, currentLocation, gpsSignalAvailable,
                               satelliteCount, accuracy>>
      ]_vars

\* a destination set on a navigator that has lost its signal and has a route
C6_Witness ==
    /\ status = "IDLE"
    /\ destination = North111m
    /\ notifications = <<Notification("Destination set: Destination", "INFO")>>
    /\ ~gpsSignalAvailable
    /\ route # <<>>
    /\ currentLocation # GPSCoordinate(0, 0, 0)

\* C7: setDestination(d, name) with an invalid d changes no field and appends
\* exactly one WARNING notification.
C7_InvalidDestinationRejected ==
    [][\A d \in DestinationInputs, n \in DestinationNames :
            (setDestination(d, n) /\ ~InRange(d)) =>
                /\ UNCHANGED <<destination, status, currentLocation, currentSpeed,
                               currentHeading, gpsSignalAvailable, satelliteCount,
                               accuracy, route>>
                /\ notifications' = Append(notifications,
                       Notification("Invalid destination coordinates", "WARNING"))
      ]_vars

\* an invalid destination refused while navigating
C7_Witness ==
    /\ notifications = <<Notification("Invalid destination coordinates", "WARNING")>>
    /\ status = "NAVIGATING"
    /\ destination = North111m

\* C8: updateLocation(loc) with an invalid loc changes no field and appends exactly
\* one WARNING notification.
C8_InvalidLocationRejected ==
    [][\A loc \in LocationInputs :
            (updateLocation(loc) /\ ~InRange(loc)) =>
                /\ UNCHANGED <<currentLocation, status, destination, currentSpeed,
                               currentHeading, gpsSignalAvailable, satelliteCount,
                               accuracy, route>>
                /\ notifications' = Append(notifications,
                       Notification("Invalid GPS coordinates received", "WARNING"))
      ]_vars

\* an invalid location refused after the signal was lost
C8_Witness ==
    /\ notifications = <<Notification("Invalid GPS coordinates received", "WARNING")>>
    /\ status = "GPS_LOST"
    /\ currentLocation = North55m

\* C9: stopNavigation() sets the status to IDLE, leaves the route empty and appends
\* exactly one INFO notification ("Navigation stopped").
C9_StopResets ==
    [][stopNavigation =>
            /\ status' = "IDLE"
            /\ route' = <<>>
            /\ notifications' = Append(notifications,
                   Notification("Navigation stopped", "INFO"))
      ]_vars

\* the navigation stopped on a navigator that has a destination and no signal
C9_Witness ==
    /\ notifications = <<Notification("Navigation stopped", "INFO")>>
    /\ status = "IDLE"
    /\ route = <<>>
    /\ "setDestination" \in called
    /\ ~gpsSignalAvailable

\* C10: updateGPSSignal(s, a) stores max(0, s) and max(0, a); in every state
\* gpsSignalAvailable = (satelliteCount >= 4 and accuracy <= 10), so 4 satellites
\* and 10 m count as available.
C10_SignalAvailability ==
    /\ [](gpsSignalAvailable = (satelliteCount >= 4 /\ accuracy <= 10))
    /\ [][\A sig \in SignalInputs :
              updateGPSSignal(sig[1], sig[2]) =>
                  /\ satelliteCount' = (IF sig[1] < 0 THEN 0 ELSE sig[1])
                  /\ accuracy' = (IF sig[2] < 0 THEN 0 ELSE sig[2])
                  /\ gpsSignalAvailable' = (satelliteCount' >= 4 /\ accuracy' <= 10)
        ]_vars

\* the boundary reading, 4 satellites and 10 m, is stored and counts as available
C10_Witness ==
    /\ "updateGPSSignal" \in called
    /\ satelliteCount = 4
    /\ accuracy = 10
    /\ gpsSignalAvailable

SignalLost == Notification("GPS signal lost!", "CRITICAL")

SignalRestored == Notification("GPS signal restored", "INFO")

\* C11: updateGPSSignal appends the CRITICAL notification "GPS signal lost!" if and
\* only if gpsSignalAvailable changes from true to false in the call, the INFO
\* notification "GPS signal restored" if and only if it changes from false to true,
\* and nothing when the value does not change.
C11_SignalEdgeNotified ==
    [][\A sig \in SignalInputs :
            updateGPSSignal(sig[1], sig[2]) =>
                /\ (gpsSignalAvailable /\ ~gpsSignalAvailable')
                       <=> (notifications' = Append(notifications, SignalLost))
                /\ (~gpsSignalAvailable /\ gpsSignalAvailable')
                       <=> (notifications' = Append(notifications, SignalRestored))
                /\ (gpsSignalAvailable' = gpsSignalAvailable)
                       => (notifications' = notifications)
      ]_vars

\* the loss of the signal reported once, by a reading of no satellite, while idle
C11_Witness ==
    /\ notifications = <<SignalLost>>
    /\ ~gpsSignalAvailable
    /\ satelliteCount = 0
    /\ accuracy = 0
    /\ status = "IDLE"

\* C12: an updateGPSSignal call that changes gpsSignalAvailable while the status is
\* IDLE or ARRIVED leaves the status unchanged.
C12_SignalChangeKeepsIdleArrived ==
    [][\A sig \in SignalInputs :
            (/\ updateGPSSignal(sig[1], sig[2])
             /\ status \in {"IDLE", "ARRIVED"}
             /\ gpsSignalAvailable' # gpsSignalAvailable) => status' = status
      ]_vars

\* the signal lost after the arrival: the status is still ARRIVED
C12_Witness ==
    /\ status = "ARRIVED"
    /\ ~gpsSignalAvailable
    /\ notifications = <<SignalLost>>

\* C13: startNavigation() in a status other than IDLE leaves the status unchanged.
C13_StartOnlyFromIdle ==
    [][(startNavigation /\ status # "IDLE") => status' = status]_vars

\* C14: addWaypoint(wp) with an invalid wp.coordinate leaves the route, the status
\* and the destination unchanged and appends exactly one WARNING notification.
C14_InvalidWaypointRejected ==
    [][\A wp \in WaypointInputs :
            (addWaypoint(wp) /\ ~InRange(wp.coordinate)) =>
                /\ UNCHANGED <<route, status, destination>>
                /\ notifications' = Append(notifications,
                       Notification("Invalid waypoint coordinates", "WARNING"))
      ]_vars

\* an invalid waypoint refused while navigating with a route
C14_Witness ==
    /\ notifications = <<Notification("Invalid waypoint coordinates", "WARNING")>>
    /\ route # <<>>
    /\ status = "NAVIGATING"

\* C15: addWaypoint(wp) with a valid coordinate appends wp at the end of the route,
\* and an invalid one leaves the route as it is; the route changes in no other way
\* than by such an append or by being emptied, so it is the valid waypoints added
\* since it was last emptied, in call order, duplicates kept.
C15_WaypointsAppendInOrder ==
    [][/\ \A wp \in RouteWaypointInputs :
            addWaypoint(wp) =>
                IF InRange(wp.coordinate)
                THEN /\ Len(route') = Len(route) + 1
                     /\ SubSeq(route', 1, Len(route)) = route
                     /\ route'[Len(route')] = wp
                ELSE route' = route
       /\ route' # route =>
              \/ route' = <<>>
              \/ \E wp \in RouteWaypointInputs :
                     InRange(wp.coordinate) /\ route' = route \o <<wp>>
      ]_vars

\* "Waypoint 2" added before "Waypoint 1": the route keeps the order of the calls
C15_Witness ==
    /\ Len(route) = 2
    /\ route[1].name = "Waypoint 2"
    /\ route[2].name = "Waypoint 1"
    /\ notifications = <<Notification("Waypoint added: Waypoint 1", "INFO")>>

\* C16: clearRoute() empties the route whatever the route and the status were,
\* appends no notification and leaves status, destination and currentLocation
\* unchanged.
C16_ClearRouteOnlyEmpties ==
    [][clearRoute =>
            /\ route' = <<>>
            /\ UNCHANGED <<notifications, status, destination, currentLocation>>
      ]_vars

\* the route emptied after the last waypoint was added, while navigating: the
\* log still ends with that waypoint (stopNavigation would have appended)
C16_Witness ==
    /\ route = <<>>
    /\ notifications = <<Notification("Waypoint added: Waypoint 1", "INFO")>>
    /\ status = "NAVIGATING"
    /\ "setDestination" \in called

\* C17: setDestination, startNavigation, updateLocation and updateGPSSignal never
\* change the route; addWaypoint and clearRoute never change the destination or
\* the status; a route that was not empty becomes empty only by clearRoute or
\* stopNavigation.
C17_RouteIndependentOfDestination ==
    [][/\ (\/ \E d \in DestinationInputs, n \in DestinationNames : setDestination(d, n)
           \/ startNavigation
           \/ \E loc \in LocationInputs : updateLocation(loc)
           \/ \E sig \in SignalInputs : updateGPSSignal(sig[1], sig[2]))
              => route' = route
       /\ ((\E wp \in WaypointInputs : addWaypoint(wp)) \/ clearRoute)
              => UNCHANGED <<destination, status>>
       /\ (route # <<>> /\ route' = <<>>) => (clearRoute \/ stopNavigation)
      ]_vars

\* a route that is still there after the destination was set and reached
C17_Witness ==
    /\ route # <<>>
    /\ status = "ARRIVED"
    /\ notifications = <<Reached>>
    /\ destination = North111m

C19_NeverOffRoute ==
    status \in {"IDLE", "NAVIGATING", "ARRIVED", "GPS_LOST"}

\* the signal lost while navigating with a route, a speed and a heading set: the
\* status is GPS_LOST, the one checkGPSSignal assigns
C19_Witness ==
    /\ status = "GPS_LOST"
    /\ notifications = <<SignalLost>>
    /\ route # <<>>
    /\ currentSpeed = 60
    /\ currentHeading = 270

C21_SpeedClamped ==
    /\ [](currentSpeed >= 0)
    /\ [][\A s \in SpeedInputs :
              updateSpeed(s) =>
                  /\ currentSpeed' = (IF s < 0 THEN 0 ELSE s)
                  /\ notifications' = notifications
        ]_vars

\* a speed stored while the log is empty and nothing else has been called
C21_Witness ==
    /\ currentSpeed = 60
    /\ notifications = <<>>
    /\ called = {}
    /\ status = "IDLE"

\* C22: getEstimatedTimeToArrival() is -1 exactly when the distance to the
\* destination is negative or currentSpeed <= 0, and (distance / currentSpeed) * 60
\* otherwise.
C22_EstimatedTimeToArrival ==
    LET distance == DistanceTable[currentLocation, destination]
        eta == getEstimatedTimeToArrival(currentLocation, destination, currentSpeed)
        none == FLt[distance, FZero] \/ currentSpeed <= 0
    IN  /\ (eta = FromInt[-1]) <=> none
        /\ ~none => eta = FMul[FDiv[distance, FromInt[currentSpeed]], FromInt[60]]

\* 111 m from the destination at 60 km/h, navigating: a time of arrival exists
C22_Witness ==
    /\ currentSpeed = 60
    /\ currentLocation = GPSCoordinate(0, 0, 0)
    /\ destination = North111m
    /\ status = "NAVIGATING"

\* C23: calculateDistance(a, b) is -1 if and only if a or b is invalid, and is
\* >= 0 for two valid coordinates: here a is the current location and b any
\* coordinate, in either order.
C23_NegativeIffInvalid ==
    \A b \in GeodesyInputs :
        /\ FEq[DistanceTable[currentLocation, b], FromInt[-1]] <=> ~InRange(b)
        /\ FEq[DistanceTable[b, currentLocation], FromInt[-1]] <=> ~InRange(b)
        /\ InRange(b) => /\ FLe[FZero, DistanceTable[currentLocation, b]]
                         /\ FLe[FZero, DistanceTable[b, currentLocation]]

\* C24: for valid coordinates a and b, calculateDistance(a, b) equals
\* calculateDistance(b, a), and calculateDistance(a, a) equals 0: here a is the
\* current location and b the destination.
C24_DistanceSymmetric ==
    /\ FEq[DistanceTable[currentLocation, destination],
           DistanceTable[destination, currentLocation]]
    /\ FEq[DistanceTable[currentLocation, currentLocation], FZero]
    /\ FEq[DistanceTable[destination, destination], FZero]

\* the ranges in which no check of the VehicleMonitor raises an alert
AllSystemsNormal ==
    /\ vehicleMonitor.engineTemperature <= 950
    /\ vehicleMonitor.fuelLevel > 150
    /\ vehicleMonitor.currentSpeed <= 1200
    /\ vehicleMonitor.brakeWearLevel > 200

\* C25: performSystemCheck() called while engine temperature, fuel level, speed
\* and brake wear are all inside their non-alerting ranges appends at least one
\* notification, whatever was done before.
C25_SystemCheckNotifies ==
    AllSystemsNormal =>
        Len(systemCheck(vehicleMonitor, notifications)) > Len(notifications)

\* C26: after any sequence of setter calls fuelLevel and brakeWearLevel are in
\* [0, 100], currentSpeed >= 0, fuelConsumptionRate >= 0 and engineTemperature is
\* in [-50, 200]; a setter stores an argument inside the range unchanged and an
\* argument outside it as the nearest bound.
Nearest(lo, hi, v) == IF v < lo THEN lo ELSE IF v > hi THEN hi ELSE v

C26_SettersClamp ==
    /\ [](/\ vehicleMonitor.fuelLevel >= 0 /\ vehicleMonitor.fuelLevel <= 1000
          /\ vehicleMonitor.brakeWearLevel >= 0 /\ vehicleMonitor.brakeWearLevel <= 1000
          /\ vehicleMonitor.currentSpeed >= 0
          /\ vehicleMonitor.fuelConsumptionRate >= 0
          /\ vehicleMonitor.engineTemperature >= -500
          /\ vehicleMonitor.engineTemperature <= 2000)
    /\ [][/\ \A t \in TemperatureInputs : setEngineTemperature(t) =>
                  vehicleMonitor'.engineTemperature = Nearest(-500, 2000, t)
          /\ \A l \in FuelLevelInputs : setFuelLevel(l) =>
                  vehicleMonitor'.fuelLevel = Nearest(0, 1000, l)
          /\ \A w \in BrakeWearInputs : setBrakeWearLevel(w) =>
                  vehicleMonitor'.brakeWearLevel = Nearest(0, 1000, w)
          /\ \A v \in MonitorSpeedInputs : setCurrentSpeed(v) =>
                  vehicleMonitor'.currentSpeed = (IF v < 0 THEN 0 ELSE v)
          /\ \A c \in ConsumptionRateInputs : setFuelConsumptionRate(c) =>
                  vehicleMonitor'.fuelConsumptionRate = (IF c < 0 THEN 0 ELSE c)
        ]_vars

\* every field at a bound: the upper ones of temperature and fuel level, the
\* lower ones of brake wear and consumption rate, and a speed stored as given
C26_Witness ==
    vehicleMonitor = [engineTemperature |-> 2000, fuelLevel |-> 1000,
                      fuelConsumptionRate |-> 0, currentSpeed |-> 1300,
                      brakeWearLevel |-> 0]

\* log is the beginning of log2
IsPrefix(log, log2) ==
    Len(log) <= Len(log2) /\ SubSeq(log2, 1, Len(log)) = log

\* C27: between clears the log only grows at its end: addNotification makes the
\* count one larger and puts the notification last, clearNotifications() makes
\* the count 0, and hasCriticalAlerts() is true if and only if the log since the
\* last clear holds a CRITICAL notification.
C27_LogAppendOnly ==
    /\ [](/\ getNotificationCount(notifications) =
                Cardinality(DOMAIN notifications)
          /\ hasCriticalAlerts(notifications) <=>
                ({i \in 1 .. Len(notifications) :
                      notifications[i].level = "CRITICAL"} # {})
          /\ \A lvl \in AlertLevel :
                LET log2 == addNotification(notifications, "message", lvl)
                IN  /\ getNotificationCount(log2) =
                           getNotificationCount(notifications) + 1
                    /\ IsPrefix(notifications, log2)
                    /\ log2[Len(log2)] = [message |-> "message", level |-> lvl]
                    /\ hasCriticalAlerts(log2) <=>
                           (hasCriticalAlerts(notifications) \/ lvl = "CRITICAL"))
    /\ [][/\ clearNotifications => getNotificationCount(notifications') = 0
          /\ ~clearNotifications => IsPrefix(notifications, notifications')
        ]_vars

\* a CRITICAL alert followed by a WARNING: the count is 2 and the critical alert
\* still counts
C27_Witness ==
    /\ Len(notifications) = 2
    /\ notifications[1].level = "CRITICAL"
    /\ notifications[2].level = "WARNING"

\* C28: updateLocation(loc) with a valid loc in status IDLE, ARRIVED or GPS_LOST
\* sets currentLocation to loc, keeps the status and appends no notification,
\* however near loc is to the destination.
C28_LocationOnlyOutsideNavigation ==
    [][\A loc \in LocationInputs :
            (/\ updateLocation(loc)
             /\ InRange(loc)
             /\ status \in {"IDLE", "ARRIVED", "GPS_LOST"}) =>
                /\ currentLocation' = loc
                /\ status' = status
                /\ notifications' = notifications
      ]_vars

\* after the arrival, the last thing notified, the navigator has moved away from
\* the destination and is still ARRIVED
C28_Witness ==
    /\ status = "ARRIVED"
    /\ notifications = <<Reached>>
    /\ currentLocation = GPSCoordinate(0, 0, 0)
    /\ destination = North111m

\* C29: status = NAVIGATING implies gpsSignalAvailable and status = GPS_LOST
\* implies its negation, in every reachable state; so startNavigation() in
\* GPS_LOST appends the CRITICAL notification and the status stays GPS_LOST.
C29_StatusAgreesWithSignal ==
    /\ [](status = "NAVIGATING" => gpsSignalAvailable)
    /\ [](status = "GPS_LOST" => ~gpsSignalAvailable)
    /\ [][(startNavigation /\ status = "GPS_LOST") =>
              /\ status' = "GPS_LOST"
              /\ notifications' = Append(notifications,
                     Notification("GPS signal unavailable - cannot start navigation",
                                  "CRITICAL"))
        ]_vars

\* startNavigation refused in GPS_LOST
C29_Witness ==
    /\ status = "GPS_LOST"
    /\ notifications = <<Notification("GPS signal unavailable - cannot start navigation",
                                      "CRITICAL")>>

NavigationStarted == Notification("Navigation started - Distance: ", "INFO")

Appended(log, log2) ==
    IF IsPrefix(log, log2) THEN SubSeq(log2, Len(log) + 1, Len(log2)) ELSE log2

\* the "GPS signal lost!" and "GPS signal restored" notifications of log, in order
RECURSIVE SignalEvents(_)
SignalEvents(log) ==
    IF log = <<>> THEN <<>>
    ELSE IF Head(log) \in {SignalLost, SignalRestored}
         THEN <<Head(log)>> \o SignalEvents(Tail(log))
         ELSE SignalEvents(Tail(log))

\* C32: the navigator starts with the signal available; a step appends one
\* "GPS signal lost!" exactly when gpsSignalAvailable goes from true to false in it
\* and one "GPS signal restored" exactly when it goes from false to true, and
\* appends neither otherwise.  So in the sequence of appended notifications the two
\* alternate, the first is "GPS signal lost!", and the lost ones outnumber the
\* restored ones by 1 while gpsSignalAvailable is false and by 0 while it is true.
\* In the log itself, which clearNotifications() empties, the two alternate and the
\* last of them is "GPS signal lost!" exactly when gpsSignalAvailable is false.
C32_LostRestoredAlternate ==
    /\ (gpsSignalAvailable = TRUE /\ SignalEvents(notifications) = <<>>)
    /\ [][LET added == Appended(notifications, notifications')
          IN  /\ Count(added, SignalLost) =
                     (IF gpsSignalAvailable /\ ~gpsSignalAvailable' THEN 1 ELSE 0)
              /\ Count(added, SignalRestored) =
                     (IF ~gpsSignalAvailable /\ gpsSignalAvailable' THEN 1 ELSE 0)
              /\ (notifications' = <<>> /\ notifications # <<>>)
                     => gpsSignalAvailable' = gpsSignalAvailable
      ]_vars
    /\ [](LET events == SignalEvents(notifications)
          IN  /\ \A i \in 1..(Len(events) - 1) : events[i] # events[i + 1]
              /\ events # <<>> =>
                     (events[Len(events)] = SignalLost <=> ~gpsSignalAvailable))

\* the signal was lost and has come back: the last notification is the restored one
C32_Witness ==
    /\ notifications = <<SignalRestored>>
    /\ gpsSignalAvailable
    /\ satelliteCount = 4
    /\ accuracy = 10
    /\ status = "IDLE"
    /\ "updateGPSSignal" \in called

\* C33: updateLocation never changes gpsSignalAvailable, satelliteCount or accuracy
\* and never appends "GPS signal lost!" or "GPS signal restored"; it never moves the
\* status from NAVIGATING to GPS_LOST or from GPS_LOST to NAVIGATING.
C33_UpdateLocationKeepsSignal ==
    [][\A loc \in LocationInputs :
          updateLocation(loc) =>
              /\ UNCHANGED <<gpsSignalAvailable, satelliteCount, accuracy>>
              /\ SignalEvents(Appended(notifications, notifications')) = <<>>
              /\ ~(status = "NAVIGATING" /\ status' = "GPS_LOST")
              /\ ~(status = "GPS_LOST" /\ status' = "NAVIGATING")
      ]_vars

\* the signal is lost and the vehicle stands at the destination: the status is
\* GPS_LOST, not NAVIGATING or ARRIVED
C33_Witness ==
    /\ status = "GPS_LOST"
    /\ ~gpsSignalAvailable
    /\ currentLocation = North111m
    /\ destination = North111m
    /\ notifications = <<>>

\* the step is the transition to ARRIVED
Arrives == status # "ARRIVED" /\ status' = "ARRIVED"

\* C34, as stated: stopNavigation() and the transition to ARRIVED leave destination,
\* currentLocation, currentSpeed, currentHeading and the signal fields unchanged,
\* and after stopNavigation() a startNavigation() with the signal available
\* returns to NAVIGATING without a new setDestination.
C34_StopAndArrivalKeepFields ==
    [][/\ (stopNavigation \/ Arrives) =>
              UNCHANGED <<destination, currentLocation, currentSpeed, currentHeading,
                          gpsSignalAvailable, satelliteCount, accuracy>>
       /\ (startNavigation /\ gpsSignalAvailable /\ "setDestination" \in called)
              => status' = "NAVIGATING"
      ]_vars

\* C34, amended: stopNavigation() leaves destination, currentLocation, currentSpeed,
\* currentHeading and the signal fields unchanged; the transition to ARRIVED leaves
\* destination, currentSpeed, currentHeading and the signal fields unchanged and
\* sets currentLocation to the coordinate passed to updateLocation; and after
\* stopNavigation() a startNavigation() with the signal available returns to
\* NAVIGATING without a new setDestination.
C34_StopKeepsFieldsArrivalMoves ==
    [][/\ stopNavigation =>
              UNCHANGED <<destination, currentLocation, currentSpeed, currentHeading,
                          gpsSignalAvailable, satelliteCount, accuracy>>
       /\ Arrives =>
              /\ UNCHANGED <<destination, currentSpeed, currentHeading,
                             gpsSignalAvailable, satelliteCount, accuracy>>
              /\ \E loc \in LocationInputs :
                     updateLocation(loc) /\ InRange(loc) /\ currentLocation' = loc
       /\ (startNavigation /\ gpsSignalAvailable /\ "setDestination" \in called)
              => status' = "NAVIGATING"
      ]_vars

\* the vehicle arrived at speed 60: the arrival kept the speed and the destination
\* and moved currentLocation to the destination
C34_Witness ==
    /\ status = "ARRIVED"
    /\ notifications = <<Reached>>
    /\ currentLocation = North111m
    /\ destination = North111m
    /\ currentSpeed = 60
    /\ gpsSignalAvailable

\* in the fields `after' the signal is available and the status is not GPS_LOST, and
\* a status that was GPS_LOST is NAVIGATING
SignalKept(after) ==
    /\ after.gpsSignalAvailable
    /\ after.status # "GPS_LOST"
    /\ status = "GPS_LOST" => after.status = "NAVIGATING"
    /\ after.satelliteCount >= MIN_SATELLITES
    /\ after.accuracy <= MIN_GPS_ACCURACY

\* C35: after simulateGPSUpdate(), for every outcome of its draws,
\* gpsSignalAvailable is true and the status is not GPS_LOST: from GPS_LOST the call
\* ends in NAVIGATING, and from NAVIGATING it never ends in GPS_LOST.
C35_SimulationRestoresSignal ==
    \A coordLat \in CoordinateDraws, coordLon \in CoordinateDraws,
       speedVar \in SpeedDraws, headingVar \in HeadingDraws,
       satVar \in SatelliteDraws, accVar \in AccuracyDraws :
        WithinSimulation(coordLat, coordLon, speedVar, headingVar) =>
            SignalKept(simulatedGPSUpdate(coordLat, coordLon, speedVar, headingVar,
                                          satVar, accVar))

\* simulateGPSUpdate() drew 12 satellites and 8 m while the signal was lost: the
\* signal is restored and the status is NAVIGATING
C35_Witness ==
    /\ status = "NAVIGATING"
    /\ gpsSignalAvailable
    /\ satelliteCount = 12
    /\ accuracy = 8
    /\ notifications = <<SignalRestored>>
    /\ currentLocation = GPSCoordinate(5, 5, 0)

\* the message without its bytes 0 .. 31 other than tab (9) and newline (10)
RECURSIVE WithoutControlCharacters(_)
WithoutControlCharacters(message) ==
    IF message = <<>> THEN <<>>
    ELSE IF Head(message) \in (0..31) \ {9, 10}
         THEN WithoutControlCharacters(Tail(message))
         ELSE <<Head(message)>> \o WithoutControlCharacters(Tail(message))

\* C36: addNotification stores the message with exactly the characters of code
\* 0 .. 31 other than tab and newline removed; every other character, the bytes
\* 127 .. 255 included, is kept in its original order.
C36_OnlyControlCharactersRemoved ==
    [][\A message \in MessageInputs, level \in AlertLevel, charIsSigned \in BOOLEAN :
          addNotificationOfBytes(message, level, charIsSigned) =>
              notifications' = Append(notifications,
                                      Notification(WithoutControlCharacters(message), level))
      ]_vars

\* C37: play() with an empty playlist leaves the player unchanged and appends a
\* WARNING, and with a non-empty playlist sets PLAYING from any state; pause() turns
\* PLAYING into PAUSED and PAUSED into PLAYING and does nothing in STOPPED; stop()
\* sets STOPPED and position 0 from any state; nextTrack(), previousTrack() and
\* setVolume() never change the state.
C37_PlaybackStateMachine ==
    [][/\ (play /\ mediaPlayer.playlist = <<>>) =>
              /\ mediaPlayer' = mediaPlayer
              /\ AppendsOne(notifications, notifications', "WARNING")
       /\ (play /\ mediaPlayer.playlist # <<>>) => mediaPlayer'.state = "PLAYING"
       /\ pause =>
              /\ mediaPlayer.state = "PLAYING" => mediaPlayer'.state = "PAUSED"
              /\ mediaPlayer.state = "PAUSED" => mediaPlayer'.state = "PLAYING"
              /\ mediaPlayer.state = "STOPPED" => UNCHANGED vars
       /\ stop => mediaPlayer'.state = "STOPPED" /\ mediaPlayer'.currentPosition = 0
       /\ (nextTrack \/ previousTrack \/ \E vol \in VolumeInputs : setVolume(vol))
              => mediaPlayer'.state = mediaPlayer.state
      ]_vars

\* the player was paused on the second of two tracks and the volume was set since
C37_Witness ==
    /\ mediaPlayer.state = "PAUSED"
    /\ Len(mediaPlayer.playlist) = 2
    /\ mediaPlayer.currentTrackIndex = 1
    /\ notifications = <<Notification("Volume set to 100%", "INFO")>>

\* the index after n nextTrack() calls on a playlist of `size' tracks
RECURSIVE NextTrackTimes(_, _, _)
NextTrackTimes(index, size, n) ==
    IF n = 0 THEN index ELSE NextTrackTimes(nextTrackIndex(index, size), size, n - 1)

\* C38: in every reachable state with a non-empty playlist,
\* 0 <= currentTrackIndex < playlist size; nextTrack() moves to (index + 1) mod size
\* and previousTrack() to (index - 1 + size) mod size, so size nextTrack() calls
\* return to the starting track and previousTrack() undoes nextTrack().
C38_TrackIndexInRange ==
    /\ [](LET size == Len(mediaPlayer.playlist)
              index == mediaPlayer.currentTrackIndex
          IN  size > 0 =>
                  /\ 0 <= index /\ index < size
                  /\ NextTrackTimes(index, size, size) = index
                  /\ previousTrackIndex(nextTrackIndex(index, size), size) = index
                  /\ nextTrackIndex(previousTrackIndex(index, size), size) = index)
    /\ [][LET size == Len(mediaPlayer.playlist)
              index == mediaPlayer.currentTrackIndex
          IN  /\ (nextTrack /\ size > 0) =>
                     /\ mediaPlayer'.currentTrackIndex = (index + 1) % size
                     /\ mediaPlayer'.playlist = mediaPlayer.playlist
              /\ (previousTrack /\ size > 0) =>
                     /\ mediaPlayer'.currentTrackIndex = (index - 1 + size) % size
                     /\ mediaPlayer'.playlist = mediaPlayer.playlist
      ]_vars

\* previousTrack() on the first track of the demo playlist, while playing, went to
\* the last of its 14 tracks
C38_Witness ==
    /\ mediaPlayer.playlist = DemoPlaylist
    /\ mediaPlayer.currentTrackIndex = 13
    /\ mediaPlayer.state = "PLAYING"
    /\ notifications = <<Notification("Previous track: Lose Yourself", "INFO")>>

\* C39: after any sequence of SystemSettings operations,
\* areNotificationSoundsEnabled() equals the sound flag of the shared
\* NotificationManager.
C39_SoundSettingMatchesManager ==
    areNotificationSoundsEnabled(systemSettings) = soundEnabled

====
